---- MODULE Spec2Model ----
(***************************************************************************)
(* Model of the session05 telemetry pipeline of rustfunda.                 *)
(*                                                                         *)
(*   Spec      the collector program (collector/src/main.rs): main starts  *)
(*             one sampler worker, drains Q, publishes, stops and joins.   *)
(*   SpecApi   the Collector object (collector/src/collector.rs) driven by *)
(*             an arbitrary client: start, stop, a consumer of Q.          *)
(*   SpecCodec the wire codec (shared_data/src/lib.rs): encode, decode.    *)
(*   SpecReceiver the Receiver object (server/src/receiver.rs) driven by   *)
(*             an arbitrary client.                                        *)
(*   SpecServer the server program (server/src/main.rs, watch_metrics).    *)
(***************************************************************************)
EXTENDS Integers, Sequences, FiniteSets, TLC

(***************************************************************************)
(* Bounds of the model.                                                    *)
(***************************************************************************)
\* Worker threads one Collector can have spawned over its life.
MaxWorkers == 2
\* Horizon of the clock (Instant::now()), in time units, in Spec.
MaxTime == 5
\* Tick bodies started, over all workers, in Spec.
MaxTicks == 5
\* The same two bounds in SpecApi.
ApiMaxTime == 3
ApiMaxTicks == 3
\* Longest period a client passes to start, in time units.
MaxPeriod == 1
MaxClones == 2
MaxIds == 2
MaxNames == 2
\* Capacity of Q; mpsc::sync_channel(10) in main.rs, scaled down.
QCap == 2
\* Successful publishes before Exit; TRIES = 100 in main.rs, scaled down.
TRIES == 2

\* Connections the listener accepts over its life.
MaxConns == 2
\* Chunks read, over all connections.
MaxChunks == 3
\* Capacity of P; mpsc::sync_channel(10) in server/src/main.rs, scaled
\* down.
PCap == 1

\* The rows the table holds at most.
MaxRows == 3

\* The threads that call Signal::wait.
SigThreads == 2
\* The calls of Signal::set and of Signal::reset.
MaxSets == 2
MaxResets == 1
\* The longest timeout given to Signal::wait_timeout, in clock steps.
MaxTimeout == 1

(***************************************************************************)
(* Program constants.                                                      *)
(***************************************************************************)
\* const ERRORS: u32 = 3
ERRORS == 3

Workers == 1..MaxWorkers
Periods == 1..MaxPeriod
Handles == 1..MaxClones

\* CollectorCommand::SubmitData of the n-th tick body (n stands for the
\* sampled metrics), and CollectorCommand::Exit.
SubmitData(n) == [tag |-> "SubmitData", sample |-> n]
Exit == [tag |-> "Exit", sample |-> 0]
NoCommand == [tag |-> "None", sample |-> 0]

VARIABLES
    \* Collector (shared through Arc)
    running,         \* Collector.running: AtomicBool
    stop_requested,  \* Collector.stop_requested: AtomicBool
    \* worker threads
    pc,              \* pc[w]: where worker w is
    period,          \* period[w]: the period its start was given
    next_tick,       \* next_tick[w]: the worker's local next_tick
    res,             \* res[w]: result of catch_unwind of the last tick body
    overran,         \* overran[w]: the last tick body ended after the next deadline
    caught,          \* caught[w]: the last tick body of w ended in a caught panic
    \* channel Q
    q,               \* commands in the sync_channel's buffer
    sent,            \* commands put into Q so far
    rx_alive,        \* the Receiver end is not dropped
    \* environment
    now,             \* the clock
    ticks,           \* tick bodies started so far
    start_result,    \* what the last call of start returned
    \* main (collector/src/main.rs)
    mainpc,
    messages,        \* let mut messages = TRIES
    errors,          \* let mut errors = ERRORS
    command,         \* the command received from Q
    ended,           \* the branch that left main_loop
    pubs,            \* history: every publish call, [cmd, ok]
    \* the codec (shared_data/src/lib.rs)
    cx_pc,           \* "input", "wire" (encoded), "done" (decoded)
    cx_id,           \* encode's collector_id
    cx_command,      \* encode's command
    cx_clock,        \* util::datetime::unix::now() at encode
    cx_frame,        \* the bytes on the wire
    cx_tampered,     \* what was done to the bytes on the wire
    cx_expect,       \* decode's collector_id
    cx_out,          \* what decode returned
    \* the receiver (server/src/receiver.rs)
    rc_running,      \* Receiver.running: AtomicBool
    listener,        \* where the listener task (the receiver thread) is
    notified,        \* the Notified future of the select! was woken
    conn,            \* conn[c]: where connection task c is
    blocked,         \* the task that holds the thread in sender.send, or 0
    held,            \* the pair that task is sending
    last,            \* the last chunk a connection task read
    chunks,          \* chunks read so far
    decoded,         \* envelopes decoded successfully so far
    lost,            \* decoded envelopes whose send returned Err
    stopped,         \* Receiver::stop has called notify_waiters
    \* channel P
    pbuf,            \* pairs in the sync_channel's buffer of P
    p_rx,            \* the Receiver end of P is not dropped
    \* the persistence worker (server/src/main.rs, watch_metrics)
    watch,           \* where the task is
    item,            \* the pair it received from P
    dequeued,        \* history: every pair received from P
    rows,            \* the rows of the timeseries table
    \* the read API (server/src/main.rs, mod data)
    shown,           \* what the last read query returned
    \* Signal (util/src/threading.rs)
    signaled,        \* the bool in the Mutex
    sig_pc,          \* sig_pc[s]: where thread s is in Signal::wait
    sig_last,        \* history: the last call that wrote the flag
    sig_how,         \* history: how thread s's last wait went
    sets,            \* history: calls of set so far
    resets,          \* history: calls of reset so far
    sig_d,           \* sig_d[s]: the timeout of thread s's wait_timeout, or -1
    sig_el           \* sig_el[s]: the time elapsed since that call began

workerVars == <<pc, period, next_tick, res, overran, caught>>
chanVars == <<q, sent, rx_alive>>
mainVars == <<mainpc, messages, errors, command, ended, pubs>>
collectorVars == <<running, stop_requested, workerVars, chanVars, now, ticks,
                   start_result, mainVars>>

codecVars == <<cx_pc, cx_id, cx_command, cx_clock, cx_frame, cx_tampered,
               cx_expect, cx_out>>

receiverVars == <<rc_running, listener, notified, conn, blocked, held, last,
                  chunks, decoded, lost, stopped>>
watchVars == <<watch, item, dequeued, rows>>
webVars == <<shown>>
serverVars == <<receiverVars, pbuf, p_rx, watchVars, webVars>>

signalVars == <<signaled, sig_pc, sig_last, sig_how, sets, resets, sig_d,
                sig_el>>

VARIABLES
    handles,         \* the Collector values alive: the first and its clones
    \* UserStore (session01/authentication)
    users,           \* UserStore.users: HashMap from id to User
    username_map,    \* UserStore.username_map: BiMap of (username, id)
    st_last          \* the last call on the store and what it returned

storeVars == <<users, username_map, st_last>>
restVars == <<handles, storeVars>>

vars == <<collectorVars, codecVars, serverVars, signalVars, restVars>>

\* The values of the fields of a User; strings are numbered, 0 is the
\* empty string.
UserIds == 0..MaxIds
Usernames == 0..MaxNames
PasswordHashes == 0..1
\* UserRole; the store treats Admin as it treats User.
UserRoles == {"None", "User"}

Users == [id : UserIds, username : Usernames,
          password_hash : PasswordHashes, role : UserRoles]

\* UserStore::new
UserStoreNew ==
    /\ users = <<>>
    /\ username_map = {}
    /\ st_last = [op |-> "new"]

Alive(w) == pc[w] \notin {"idle", "done", "dead"}

TimeCap == IF mainpc = "api" THEN ApiMaxTime ELSE MaxTime
TickCap == IF mainpc = "api" THEN ApiMaxTicks ELSE MaxTicks

\* The codec is not in use.
CodecIdle ==
    /\ cx_pc = "idle"
    /\ cx_id = 0
    /\ cx_command = NoCommand
    /\ cx_clock = 0
    /\ cx_frame = <<>>
    /\ cx_tampered = {}
    /\ cx_expect = 0
    /\ cx_out = [kind |-> "None"]

Conns == 1..MaxConns
NoItem == [n |-> 0]
NoChunk == [conn |-> 0, kind |-> "none"]

Waiters == 1..SigThreads

\* Signal::new(): the flag of a default Signal is false.
SignalIdle ==
    /\ signaled = FALSE
    /\ sig_pc = [s \in Waiters |-> "idle"]
    /\ sig_last = "none"
    /\ sig_how = [s \in Waiters |-> "none"]
    /\ sets = 0
    /\ resets = 0
    /\ sig_d = [s \in Waiters |-> -1]
    /\ sig_el = [s \in Waiters |-> 0]

\* The receiver and the persistence worker are not in use.
ServerIdle ==
    /\ rc_running = FALSE
    /\ listener = "none"
    /\ notified = FALSE
    /\ conn = [c \in Conns |-> "none"]
    /\ blocked = 0
    /\ held = NoItem
    /\ last = NoChunk
    /\ chunks = 0
    /\ decoded = 0
    /\ lost = {}
    /\ stopped = FALSE
    /\ pbuf = <<>>
    /\ p_rx = TRUE
    /\ watch = "none"
    /\ item = NoItem
    /\ dequeued = <<>>
    /\ rows = <<>>
    /\ shown = [query |-> "none"]

(***************************************************************************)
(* Collector::new and the state of main before start.                      *)
(***************************************************************************)
CollectorNew ==
    /\ running = FALSE
    /\ stop_requested = FALSE
    /\ pc = [w \in Workers |-> "idle"]
    /\ period = [w \in Workers |-> 1]
    /\ next_tick = [w \in Workers |-> 0]
    /\ res = [w \in Workers |-> "none"]
    /\ overran = [w \in Workers |-> FALSE]
    /\ caught = [w \in Workers |-> FALSE]
    /\ q = <<>>
    /\ sent = 0
    /\ rx_alive = TRUE
    /\ now = 0
    /\ ticks = 0
    /\ start_result = "none"
    /\ messages = TRIES
    /\ errors = ERRORS
    /\ command = NoCommand
    /\ ended = "none"
    /\ pubs = <<>>
    /\ handles = {1}

(***************************************************************************)
(* Collector::start: the compare_exchange on running, the reset of         *)
(* stop_requested and the spawn of the worker thread.                      *)
(***************************************************************************)
StartFails == running

start(p) ==
    IF StartFails
    THEN /\ start_result' = "AlreadyRunning"
         /\ UNCHANGED <<running, stop_requested, pc, period>>
    ELSE /\ \E w \in Workers :
              /\ pc[w] = "idle"
              /\ \A v \in Workers : v < w => pc[v] # "idle"
              /\ pc' = [pc EXCEPT ![w] = "init"]
              /\ period' = [period EXCEPT ![w] = p]
         /\ running' = TRUE
         /\ stop_requested' = FALSE
         /\ start_result' = "Ok"

\* Collector::stop: compare_exchange(false, true) on stop_requested.
stop ==
    stop_requested' = TRUE

(***************************************************************************)
(* The worker thread.                                                      *)
(***************************************************************************)
\* The thread's locals are gone when it ends.
ThreadEnds(w) ==
    /\ period' = [period EXCEPT ![w] = 1]
    /\ next_tick' = [next_tick EXCEPT ![w] = 0]
    /\ res' = [res EXCEPT ![w] = "none"]
    /\ overran' = [overran EXCEPT ![w] = FALSE]
    /\ caught' = [caught EXCEPT ![w] = FALSE]

\* System::new_all() and refresh_all() run outside catch_unwind: a panic
\* there ends the thread and drops its sender.
WorkerInitPanic(w) ==
    /\ pc[w] = "init"
    /\ pc' = [pc EXCEPT ![w] = "dead"]
    /\ ThreadEnds(w)
    /\ UNCHANGED <<running, stop_requested, chanVars, now, ticks,
                   start_result, mainVars, codecVars, serverVars,
                   signalVars, restVars>>

\* let mut next_tick = Instant::now() + period;
WorkerInit(w) ==
    /\ pc[w] = "init"
    /\ next_tick' = [next_tick EXCEPT ![w] = now + period[w]]
    /\ pc' = [pc EXCEPT ![w] = "check"]
    /\ UNCHANGED <<running, stop_requested, period, res, overran, caught,
                   chanVars, now, ticks, start_result, mainVars, codecVars, serverVars,
                   signalVars, restVars>>

\* while !stop_requested.load(..): the loop ends.
WorkerExit(w) ==
    /\ pc[w] = "check"
    /\ stop_requested
    /\ pc' = [pc EXCEPT ![w] = "done"]
    /\ ThreadEnds(w)
    /\ UNCHANGED <<running, stop_requested, chanVars, now, ticks,
                   start_result, mainVars, codecVars, serverVars,
                   signalVars, restVars>>

\* A loop that takes the next deadline from the clock.
EnterBodyFromNow(w) ==
    /\ next_tick' = [next_tick EXCEPT ![w] = now + period[w]]
    /\ ticks' = ticks + 1
    /\ pc' = [pc EXCEPT ![w] = "body"]

\* next_tick += period, and the tick body is entered.
EnterBody(w) ==
    /\ next_tick' = [next_tick EXCEPT ![w] = @ + period[w]]
    /\ ticks' = ticks + 1
    /\ pc' = [pc EXCEPT ![w] = "body"]

\* now < next_tick: thread::sleep(next_tick - now).
WorkerSleep(w) ==
    /\ pc[w] = "check"
    /\ ~stop_requested
    /\ ticks < TickCap
    /\ now < next_tick[w]
    /\ pc' = [pc EXCEPT ![w] = "sleep"]
    /\ UNCHANGED <<running, stop_requested, period, next_tick, res, overran,
                   caught, chanVars, now, ticks, start_result, mainVars,
                   codecVars, serverVars, signalVars, restVars>>

\* The sleep returns once the clock has reached next_tick.
WorkerWake(w) ==
    /\ pc[w] = "sleep"
    /\ now >= next_tick[w]
    /\ EnterBody(w)
    /\ UNCHANGED <<running, stop_requested, period, res, overran, caught,
                   chanVars, now, start_result, mainVars, codecVars, serverVars,
                   signalVars, restVars>>

\* now >= next_tick: no sleep, the tick body runs at once.
WorkerFireNow(w) ==
    /\ pc[w] = "check"
    /\ ~stop_requested
    /\ ticks < TickCap
    /\ now >= next_tick[w]
    /\ EnterBody(w)
    /\ UNCHANGED <<running, stop_requested, period, res, overran, caught,
                   chanVars, now, start_result, mainVars, codecVars, serverVars,
                   signalVars, restVars>>

\* The tick body up to the send: refresh, read, build the command.
WorkerSample(w) ==
    /\ pc[w] = "body"
    /\ pc' = [pc EXCEPT ![w] = "send"]
    /\ UNCHANGED <<running, stop_requested, period, next_tick, res, overran,
                   caught, chanVars, now, ticks, start_result, mainVars,
                   codecVars, serverVars, signalVars, restVars>>

\* Where a panic caught by catch_unwind leaves the worker.
AfterPanicDies == "dead"

AfterPanic == "release"

\* A panic while sampling, caught by catch_unwind.
WorkerSamplePanic(w) ==
    /\ pc[w] = "body"
    /\ res' = [res EXCEPT ![w] = "panic"]
    /\ caught' = [caught EXCEPT ![w] = TRUE]
    /\ overran' = [overran EXCEPT ![w] = now > next_tick[w]]
    /\ pc' = [pc EXCEPT ![w] = AfterPanic]
    /\ UNCHANGED <<running, stop_requested, period, next_tick, chanVars, now,
                   ticks, start_result, mainVars, codecVars, serverVars,
                   signalVars, restVars>>

\* SyncSender::send can proceed: the receiver is gone (it returns Err) or
\* the buffer has a free slot. Otherwise it blocks; it never looks at
\* stop_requested.
SendReady == ~rx_alive \/ Len(q) < QCap

\* sender.send(command).unwrap(); the command carries the number of its
\* place in the order of the sends.
WorkerSend(w) ==
    /\ pc[w] = "send"
    /\ SendReady
    /\ IF ~rx_alive
       THEN /\ res' = [res EXCEPT ![w] = "panic"]
            /\ caught' = [caught EXCEPT ![w] = TRUE]
            /\ pc' = [pc EXCEPT ![w] = AfterPanic]
            /\ UNCHANGED <<q, sent>>
       ELSE /\ q' = Append(q, SubmitData(sent + 1))
            /\ sent' = sent + 1
            /\ res' = [res EXCEPT ![w] = "ok"]
            /\ caught' = [caught EXCEPT ![w] = FALSE]
            /\ pc' = [pc EXCEPT ![w] = "release"]
    /\ overran' = [overran EXCEPT ![w] = now > next_tick[w]]
    /\ UNCHANGED <<running, stop_requested, period, next_tick, rx_alive, now,
                   ticks, start_result, mainVars, codecVars, serverVars,
                   signalVars, restVars>>

\* running.store(false, Release) after catch_unwind returned; the error, if
\* any, is logged.
WorkerRelease(w) ==
    /\ pc[w] = "release"
    /\ running' = FALSE
    /\ res' = [res EXCEPT ![w] = "none"]
    /\ pc' = [pc EXCEPT ![w] = "check"]
    /\ UNCHANGED <<stop_requested, period, next_tick, overran, caught,
                   chanVars, now, ticks, start_result, mainVars, codecVars, serverVars,
                   signalVars, restVars>>

Worker(w) ==
    \/ WorkerInit(w)
    \/ WorkerInitPanic(w)
    \/ WorkerExit(w)
    \/ WorkerSleep(w)
    \/ WorkerWake(w)
    \/ WorkerFireNow(w)
    \/ WorkerSample(w)
    \/ WorkerSamplePanic(w)
    \/ WorkerSend(w)
    \/ WorkerRelease(w)

\* Time passes while a worker lives.
Tick ==
    /\ now < TimeCap
    /\ \E w \in Workers : Alive(w)
    /\ now' = now + 1
    /\ UNCHANGED <<running, stop_requested, workerVars, chanVars, ticks,
                   start_result, mainVars, codecVars, serverVars,
                   signalVars, restVars>>

(***************************************************************************)
(* SpecApi: a client of the Collector.                                     *)
(***************************************************************************)
ApiStart(p) ==
    /\ StartFails \/ \E w \in Workers : pc[w] = "idle"
    /\ start(p)
    /\ UNCHANGED <<next_tick, res, overran, caught, chanVars, now, ticks,
                   mainVars, codecVars, serverVars, signalVars, restVars>>

ApiStop ==
    /\ stop
    /\ UNCHANGED <<running, workerVars, chanVars, now, ticks, start_result,
                   mainVars, codecVars, serverVars, signalVars, restVars>>

\* The consumer of Q takes one command.
ApiRecv ==
    /\ rx_alive
    /\ q # <<>>
    /\ q' = Tail(q)
    /\ UNCHANGED <<running, stop_requested, workerVars, sent, rx_alive, now,
                   ticks, start_result, mainVars, codecVars, serverVars,
                   signalVars, restVars>>

\* The consumer drops the receiving end of Q.
ApiDropRx ==
    /\ rx_alive
    /\ rx_alive' = FALSE
    /\ q' = <<>>
    /\ UNCHANGED <<running, stop_requested, workerVars, sent, now, ticks,
                   start_result, mainVars, codecVars, serverVars,
                   signalVars, restVars>>

InitApi ==
    /\ CollectorNew
    /\ mainpc = "api"
    /\ CodecIdle
    /\ ServerIdle
    /\ SignalIdle
    /\ UserStoreNew

NextApi ==
    \/ \E p \in Periods : ApiStart(p)
    \/ ApiStop
    \/ ApiRecv
    \/ ApiDropRx
    \/ \E w \in Workers : Worker(w)
    \/ Tick

SpecApi == InitApi /\ [][NextApi]_vars

(***************************************************************************)
(* SpecClones: the Collector is Clone; every clone holds the same two      *)
(* Arc<AtomicBool>, and dropping a clone calls stop.                       *)
(***************************************************************************)
\* #[derive(Clone)]: a new Collector value with clones of both Arcs.
CollectorClone(h) ==
    /\ handles # {}
    /\ h \notin handles
    /\ handles' = handles \cup {h}
    /\ UNCHANGED <<collectorVars, codecVars, serverVars, signalVars,
                   storeVars>>

\* start called on the Collector value h.
CloneStart(h, p) ==
    /\ h \in handles
    /\ ApiStart(p)

\* stop called on the Collector value h.
CloneStop(h) ==
    /\ h \in handles
    /\ ApiStop

\* impl Drop for Collector: drop calls self.stop().
CollectorDrop(h) ==
    /\ h \in handles
    /\ handles' = handles \ {h}
    /\ stop
    /\ UNCHANGED <<running, workerVars, chanVars, now, ticks, start_result,
                   mainVars, codecVars, serverVars, signalVars, storeVars>>

NextClones ==
    \/ \E h \in Handles : CollectorClone(h)
    \/ \E h \in Handles, p \in Periods : CloneStart(h, p)
    \/ \E h \in Handles : CloneStop(h)
    \/ \E h \in Handles : CollectorDrop(h)
    \/ ApiRecv
    \/ \E w \in Workers : Worker(w)
    \/ Tick

SpecClones == InitApi /\ [][NextClones]_vars

(***************************************************************************)
(* Spec: the collector program, collector/src/main.rs.                     *)
(***************************************************************************)
\* collector.start(sender, Duration::from_secs(1)).unwrap()
MainStart ==
    /\ mainpc = "start"
    /\ start(1)
    /\ mainpc' = "recv"
    /\ UNCHANGED <<next_tick, res, overran, caught, chanVars, now, ticks,
                   messages, errors, command, ended, pubs, codecVars, serverVars,
                   signalVars, restVars>>

\* What rx.recv() returns from a buffer that is not empty.
DequeuedLast(queue) == queue[Len(queue)]

Dequeued(queue) == Head(queue)

\* A recv that leaves the command in the buffer.
MainRecvOkPeek ==
    /\ mainpc = "recv"
    /\ q # <<>>
    /\ command' = Dequeued(q)
    /\ mainpc' = "publish"
    /\ UNCHANGED <<running, stop_requested, workerVars, chanVars, now,
                   ticks, start_result, messages, errors, ended, pubs,
                   codecVars, serverVars, signalVars, restVars>>

\* rx.recv() returns Ok(command).
MainRecvOk ==
    /\ mainpc = "recv"
    /\ q # <<>>
    /\ command' = Dequeued(q)
    /\ q' = Tail(q)
    /\ mainpc' = "publish"
    /\ UNCHANGED <<running, stop_requested, workerVars, sent, rx_alive, now,
                   ticks, start_result, messages, errors, ended, pubs,
                   codecVars, serverVars, signalVars, restVars>>

\* rx.recv() returns Err: the buffer is empty and every sender is dropped
\* (after start, the worker thread holds the only one).
MainRecvErr ==
    /\ mainpc = "recv"
    /\ q = <<>>
    /\ \A w \in Workers : ~Alive(w)
    /\ ended' = "closed"
    /\ mainpc' = "stop"
    /\ UNCHANGED <<running, stop_requested, workerVars, chanVars, now, ticks,
                   start_result, messages, errors, command, pubs, codecVars, serverVars,
                   signalVars, restVars>>

\* errors after a successful publish: errors = ERRORS.
ErrorsAfterOkKept == errors

ErrorsAfterOk == ERRORS

\* if messages == 0, after messages -= 1.
FinishedNever(m) == FALSE

Finished(m) == m = 0

\* collector.publish(&command) of a command received from Q: ok, or an
\* error of connect or write_all.
MainPublish(ok) ==
    /\ mainpc = "publish"
    /\ pubs' = Append(pubs, [cmd |-> command, ok |-> ok])
    /\ IF ok
       THEN /\ messages' = messages - 1
            /\ errors' = ErrorsAfterOk
            /\ IF Finished(messages')
               THEN mainpc' = "exit" /\ ended' = "messages"
               ELSE mainpc' = "recv" /\ ended' = ended
       ELSE /\ errors' = errors - 1
            /\ messages' = messages
            /\ IF errors' = 0
               THEN mainpc' = "stop" /\ ended' = "errors"
               ELSE mainpc' = "recv" /\ ended' = ended
    /\ UNCHANGED <<running, stop_requested, workerVars, chanVars, now, ticks,
                   start_result, command, codecVars, serverVars,
                   signalVars, restVars>>

\* let _ = collector.publish(&CollectorCommand::Exit { collector_id });
\* break 'main_loop
MainPublishExit(ok) ==
    /\ mainpc = "exit"
    /\ pubs' = Append(pubs, [cmd |-> Exit, ok |-> ok])
    /\ mainpc' = "stop"
    /\ UNCHANGED <<running, stop_requested, workerVars, chanVars, now, ticks,
                   start_result, messages, errors, command, ended, codecVars, serverVars,
                   signalVars, restVars>>

\* collector.stop()
MainStop ==
    /\ mainpc = "stop"
    /\ stop
    /\ mainpc' = "join"
    /\ UNCHANGED <<running, workerVars, chanVars, now, ticks, start_result,
                   messages, errors, command, ended, pubs, codecVars, serverVars,
                   signalVars, restVars>>

\* handle.join() returns once the worker thread has ended; main returns
\* and rx is dropped.
MainJoin ==
    /\ mainpc = "join"
    /\ ~Alive(1)
    /\ mainpc' = "end"
    /\ rx_alive' = FALSE
    /\ q' = <<>>
    /\ UNCHANGED <<running, stop_requested, workerVars, sent, now, ticks,
                   start_result, messages, errors, command, ended, pubs,
                   codecVars, serverVars, signalVars, restVars>>

Init ==
    /\ CollectorNew
    /\ mainpc = "start"
    /\ CodecIdle
    /\ ServerIdle
    /\ SignalIdle
    /\ UserStoreNew

Next ==
    \/ MainStart
    \/ MainRecvOk
    \/ MainRecvErr
    \/ \E ok \in BOOLEAN : MainPublish(ok)
    \/ \E ok \in BOOLEAN : MainPublishExit(ok)
    \/ MainStop
    \/ MainJoin
    \/ \E w \in Workers : Worker(w)
    \/ Tick

Spec == Init /\ [][Next]_vars

(***************************************************************************)
(* The wire codec, shared_data/src/lib.rs. Bytes are numbers 0..255 and a  *)
(* buffer is a sequence of them. A 32-bit CRC is kept as its two 16-bit    *)
(* halves <<high, low>>.                                                   *)
(***************************************************************************)
\* const VERSION_NUMBER: u16 = 1
VERSION_NUMBER == 1

\* CollectorCommand::SubmitData { collector_id, metrics }. The f32 fields
\* of Metrics are kept in tenths: cpu_usage 150 is 15.0.
SubmitDataOf(id, m) == [tag |-> "SubmitData", collector_id |-> id, metrics |-> m]

\* write_uN::<BigEndian>(v): the n bytes of v, the highest first.
RECURSIVE BE(_, _)
BE(v, n) == IF n = 0 THEN <<>> ELSE Append(BE(v \div 256, n - 1), v % 256)

\* read_uN::<BigEndian>: the number a sequence of bytes stands for.
RECURSIVE U(_)
U(bs) ==
    IF bs = <<>> THEN 0
    ELSE 256 * U(SubSeq(bs, 1, Len(bs) - 1)) + bs[Len(bs)]

\* The number is below 2^24: all but the last three bytes are 0.
Small(bs) == \A i \in 1..(Len(bs) - 3) : bs[i] = 0

RECURSIVE Xor(_, _)
Xor(a, b) ==
    IF a = 0 THEN b
    ELSE IF b = 0 THEN a
    ELSE ((a + b) % 2) + 2 * Xor(a \div 2, b \div 2)

Xor32(x, y) == <<Xor(x[1], y[1]), Xor(x[2], y[2])>>

\* x >> n of a 32-bit value, n in {1, 8}.
Shr(x, d) == <<x[1] \div d, (x[2] \div d) + (x[1] % d) * (65536 \div d)>>

\* The reflected CRC-32 polynomial 0xEDB88320.
CrcPoly == <<60856, 33568>>

RECURSIVE CrcBits(_, _)
CrcBits(x, k) ==
    IF k = 0 THEN x
    ELSE CrcBits(IF x[2] % 2 = 1 THEN Xor32(Shr(x, 2), CrcPoly)
                 ELSE Shr(x, 2), k - 1)

CrcTable == [i \in 0..255 |-> CrcBits(<<0, i>>, 8)]

\* One byte of the table-driven update.
CrcStep(x, b) == Xor32(Shr(x, 256), CrcTable[Xor(x[2] % 256, b)])

\* The update over bytes lo..hi of bs, split in halves; the left half is
\* evaluated before the right one is entered.
RECURSIVE CrcUpdate(_, _, _, _)
CrcUpdate(x, bs, lo, hi) ==
    IF lo > hi THEN x
    ELSE IF lo = hi THEN CrcStep(x, bs[lo])
    ELSE LET mid == (lo + hi) \div 2
             left == CrcUpdate(x, bs, lo, mid)
         IN  IF left \in Seq(Nat) THEN CrcUpdate(left, bs, mid + 1, hi)
             ELSE left

\* crc32fast::hash: CRC-32 (IEEE) of the bytes.
Crc32(bs) ==
    Xor32(CrcUpdate(<<65535, 65535>>, bs, 1, Len(bs)), <<65535, 65535>>)

\* write_u32::<BigEndian>(crc)
CrcBytes(x) == BE(x[1], 2) \o BE(x[2], 2)

\* {"SubmitData":{"collector_id":
LitHead ==
    <<123, 34, 83, 117, 98, 109, 105, 116, 68, 97, 116, 97, 34, 58, 123,
      34, 99, 111, 108, 108, 101, 99, 116, 111, 114, 95, 105, 100, 34, 58>>

\* ,"metrics":{"total_memory":
LitMetrics ==
    <<44, 34, 109, 101, 116, 114, 105, 99, 115, 34, 58, 123, 34, 116, 111,
      116, 97, 108, 95, 109, 101, 109, 111, 114, 121, 34, 58>>

\* ,"used_memory":
LitUsed ==
    <<44, 34, 117, 115, 101, 100, 95, 109, 101, 109, 111, 114, 121, 34, 58>>

\* ,"cpus":
LitCpus == <<44, 34, 99, 112, 117, 115, 34, 58>>

\* ,"cpu_usage":
LitCpuUsage == <<44, 34, 99, 112, 117, 95, 117, 115, 97, 103, 101, 34, 58>>

\* ,"avg_cpu_usage":
LitAvg ==
    <<44, 34, 97, 118, 103, 95, 99, 112, 117, 95, 117, 115, 97, 103, 101,
      34, 58>>

\* }}}
LitTail == <<125, 125, 125>>

\* The decimal digits of a natural number, in ASCII.
RECURSIVE Dec(_)
Dec(n) == IF n < 10 THEN <<48 + n>> ELSE Append(Dec(n \div 10), 48 + (n % 10))

\* An f32 as serde_json writes it; t is the value in tenths.
DecF32(t) == Dec(t \div 10) \o <<46>> \o Dec(t % 10)

\* serde_json::to_string(&command): the externally tagged enum.
ToJson(c) ==
    LitHead \o Dec(c.collector_id)
    \o LitMetrics \o Dec(c.metrics.total_memory)
    \o LitUsed \o Dec(c.metrics.used_memory)
    \o LitCpus \o Dec(c.metrics.cpus)
    \o LitCpuUsage \o DecF32(c.metrics.cpu_usage)
    \o LitAvg \o DecF32(c.metrics.avg_cpu_usage)
    \o LitTail

IsDigit(b) == b \in 48..57

RECURSIVE DigitsEnd(_, _)
DigitsEnd(bs, pos) ==
    IF pos <= Len(bs) /\ IsDigit(bs[pos]) THEN DigitsEnd(bs, pos + 1) ELSE pos

RECURSIVE NatOf(_)
NatOf(ds) ==
    IF ds = <<>> THEN 0
    ELSE 10 * NatOf(SubSeq(ds, 1, Len(ds) - 1)) + (ds[Len(ds)] - 48)

\* A JSON integer at pos: digits, no leading zero; up to nine digits are
\* in the range of the model.
ParseNat(bs, pos) ==
    LET e == DigitsEnd(bs, pos)
    IN  IF e = pos \/ (e - pos > 1 /\ bs[pos] = 48) \/ e - pos > 9
        THEN [ok |-> FALSE]
        ELSE [ok |-> TRUE, val |-> NatOf(SubSeq(bs, pos, e - 1)), next |-> e]

\* A JSON number read as f32, in tenths: an integer, or an integer with
\* one digit after the point.
ParseF32(bs, pos) ==
    LET n == ParseNat(bs, pos)
    IN  IF ~n.ok THEN n
        ELSE IF n.next <= Len(bs) /\ bs[n.next] = 46
        THEN IF DigitsEnd(bs, n.next + 1) = n.next + 2
             THEN [ok |-> TRUE, val |-> 10 * n.val + (bs[n.next + 1] - 48),
                   next |-> n.next + 2]
             ELSE [ok |-> FALSE]
        ELSE [ok |-> TRUE, val |-> 10 * n.val, next |-> n.next]

StartsWith(bs, pos, lit) ==
    /\ pos + Len(lit) - 1 <= Len(bs)
    /\ SubSeq(bs, pos, pos + Len(lit) - 1) = lit

JsonFields ==
    <<[lit |-> LitHead, f32 |-> FALSE], [lit |-> LitMetrics, f32 |-> FALSE],
      [lit |-> LitUsed, f32 |-> FALSE], [lit |-> LitCpus, f32 |-> FALSE],
      [lit |-> LitCpuUsage, f32 |-> TRUE], [lit |-> LitAvg, f32 |-> TRUE]>>

\* The values of the fields from the k-th on, in the order of the struct.
RECURSIVE ParseFields(_, _, _, _)
ParseFields(bs, pos, k, acc) ==
    IF k > Len(JsonFields)
    THEN IF StartsWith(bs, pos, LitTail) /\ pos + Len(LitTail) - 1 = Len(bs)
         THEN [ok |-> TRUE, vals |-> acc]
         ELSE [ok |-> FALSE]
    ELSE IF ~StartsWith(bs, pos, JsonFields[k].lit) THEN [ok |-> FALSE]
    ELSE LET at == pos + Len(JsonFields[k].lit)
             v == IF JsonFields[k].f32 THEN ParseF32(bs, at)
                  ELSE ParseNat(bs, at)
         IN  IF ~v.ok THEN [ok |-> FALSE]
             ELSE ParseFields(bs, v.next, k + 1, Append(acc, v.val))

\* serde_json::from_slice::<CollectorCommand>(&payload), for the text in
\* the form to_string writes.
FromJson(bs) ==
    LET r == ParseFields(bs, 1, 1, <<>>)
    IN  IF ~r.ok THEN [ok |-> FALSE]
        ELSE [ok |-> TRUE,
              command |-> SubmitDataOf(r.vals[1],
                  [total_memory |-> r.vals[2], used_memory |-> r.vals[3],
                   cpus |-> r.vals[4], cpu_usage |-> r.vals[5],
                   avg_cpu_usage |-> r.vals[6]])]

\* The fields encode writes before the payload.
EncodeHeaderVersionLast(id, timestamp, size) ==
    BE(id, 16) \o BE(timestamp, 8) \o BE(VERSION_NUMBER, 2) \o BE(size, 4)

EncodeHeader(id, timestamp, size) ==
    BE(id, 16) \o BE(VERSION_NUMBER, 2) \o BE(timestamp, 8) \o BE(size, 4)

\* encode(collector_id, command), with the clock it reads.
encodeCrcOfFrame(id, c, timestamp) ==
    LET bytes == ToJson(c)
        head == EncodeHeader(id, timestamp, Len(bytes)) \o bytes
    IN  head \o CrcBytes(Crc32(head))

encode(id, c, timestamp) ==
    LET bytes == ToJson(c)
    IN  EncodeHeader(id, timestamp, Len(bytes)) \o bytes
        \o CrcBytes(Crc32(bytes))

\* The reads of decode through the Cursor; each fails at the end of the
\* buffer.
\* read_exact and read_u32 fail when fewer than size + 4 of the n bytes
\* are left after the 30 bytes of the header.
EndsEarlyCrcUnread(n, size) == n < 30 + size

EndsEarly(n, size) == n < 34 + size

ReadFrame(bytes) ==
    LET n == Len(bytes)
        sizeBytes == SubSeq(bytes, 27, 30)
    IN  IF n < 30 \/ ~Small(sizeBytes) \/ EndsEarly(n, U(sizeBytes))
        THEN [ok |-> FALSE]
        ELSE LET size == U(sizeBytes)
                 crcEnd == IF n < 34 + size THEN n ELSE 34 + size
             IN  [ok |-> TRUE,
                  magic_number |-> SubSeq(bytes, 1, 16),
                  version |-> SubSeq(bytes, 17, 18),
                  timestamp |-> SubSeq(bytes, 19, 26),
                  payload |-> SubSeq(bytes, 31, 30 + size),
                  crc |-> SubSeq(bytes, 31 + size, crcEnd)]

\* if version != VERSION_NUMBER
VersionLowByteRejected(version) == version[2] # VERSION_NUMBER % 256

VersionRejected(version) == version # BE(VERSION_NUMBER, 2)

\* decode(collector_id, bytes): Ok((timestamp, command)), an Err, or a
\* panic (assert_eq! on the CRC, unwrap of from_slice).
decode(collector_id, bytes) ==
    LET f == ReadFrame(bytes)
    IN  IF ~f.ok THEN [kind |-> "Err", error |-> "Io"]
        ELSE IF f.magic_number # BE(collector_id, 16)
        THEN [kind |-> "Err", error |-> "InvalidCollectorId"]
        ELSE IF VersionRejected(f.version)
        THEN [kind |-> "Err", error |-> "InvalidVersion"]
        ELSE IF f.crc # CrcBytes(Crc32(f.payload))
        THEN [kind |-> "Panic", error |-> "assert_eq"]
        ELSE LET p == FromJson(f.payload)
             IN  IF ~p.ok THEN [kind |-> "Panic", error |-> "unwrap"]
                 ELSE [kind |-> "Ok", timestamp |-> U(f.timestamp),
                       command |-> p.command]

(***************************************************************************)
(* SpecCodec: a command is encoded, the bytes may be changed on the wire,  *)
(* and the bytes are decoded.                                              *)
(***************************************************************************)
Ids == {1, 258}
MetricsSet ==
    {[total_memory |-> 100, used_memory |-> 50, cpus |-> 4,
      cpu_usage |-> 150, avg_cpu_usage |-> 15],
     [total_memory |-> 1048576, used_memory |-> 0, cpus |-> 0,
      cpu_usage |-> 1000, avg_cpu_usage |-> 1000]}
Commands == {SubmitDataOf(i, m) : i \in Ids, m \in MetricsSet}
Clocks == {1, 1700000000}
Versions == {0, 2, 257}

\* The ways the bytes are changed, each at most once, in this order.
TamperOrder == <<"magic", "version", "payload", "resum", "crc", "cut">>
TamperRank(k) == CHOOSE i \in 1..Len(TamperOrder) : TamperOrder[i] = k
CanTamper(k) ==
    /\ cx_pc = "wire"
    /\ \A j \in cx_tampered : TamperRank(j) < TamperRank(k)

\* The bytes with byte i replaced by b.
SetByte(bs, i, b) == [bs EXCEPT ![i] = b]
\* The bytes with the lowest bit of byte i flipped.
FlipBit(bs, i) == SetByte(bs, i, Xor(bs[i], 1))

CodecEncode(t) ==
    /\ cx_pc = "input"
    /\ cx_clock' = t
    /\ cx_frame' = encode(cx_id, cx_command, t)
    /\ cx_pc' = "wire"
    /\ UNCHANGED <<cx_id, cx_command, cx_tampered, cx_expect, cx_out,
                   collectorVars, serverVars, signalVars, restVars>>

Tampered(k, bytes) ==
    /\ CanTamper(k)
    /\ cx_frame' = bytes
    /\ cx_tampered' = cx_tampered \cup {k}
    /\ UNCHANGED <<cx_pc, cx_id, cx_command, cx_clock, cx_expect, cx_out,
                   collectorVars, serverVars, signalVars, restVars>>

\* The frame carries the id of another collector.
TamperMagic == Tampered("magic", FlipBit(cx_frame, 16))

\* The version field is set to v.
TamperVersion(v) ==
    Tampered("version", SubSeq(cx_frame, 1, 16) \o BE(v, 2)
                        \o SubSeq(cx_frame, 19, Len(cx_frame)))

TamperPayload(i) == Tampered("payload", FlipBit(cx_frame, 30 + i))

\* The CRC field is rewritten to match the payload as it now is.
TamperResum ==
    Tampered("resum",
             SubSeq(cx_frame, 1, Len(cx_frame) - 4)
             \o CrcBytes(Crc32(SubSeq(cx_frame, 31, Len(cx_frame) - 4))))

TamperCrc == Tampered("crc", FlipBit(cx_frame, Len(cx_frame)))

\* The buffer ends after n bytes.
TamperCut(n) == Tampered("cut", SubSeq(cx_frame, 1, n))

CodecDecode(id) ==
    /\ cx_pc = "wire"
    /\ cx_expect' = id
    /\ cx_out' = decode(id, cx_frame)
    /\ cx_pc' = "done"
    /\ UNCHANGED <<cx_id, cx_command, cx_clock, cx_frame, cx_tampered,
                   collectorVars, serverVars, signalVars, restVars>>

InitCodec ==
    /\ CollectorNew
    /\ ServerIdle
    /\ SignalIdle
    /\ UserStoreNew
    /\ mainpc = "codec"
    /\ cx_pc = "input"
    /\ cx_id \in Ids
    /\ cx_command \in Commands
    /\ cx_clock = 0
    /\ cx_frame = <<>>
    /\ cx_tampered = {}
    /\ cx_expect = 0
    /\ cx_out = [kind |-> "None"]

NextCodec ==
    \/ \E t \in Clocks : CodecEncode(t)
    \/ TamperMagic
    \/ \E v \in Versions : TamperVersion(v)
    \/ \E i \in {1, 31, Len(cx_frame) - 34} : TamperPayload(i)
    \/ TamperResum
    \/ TamperCrc
    \/ \E n \in {0, 17, 29, 30, Len(cx_frame) - 5, Len(cx_frame) - 1} :
          TamperCut(n)
    \/ \E id \in Ids : CodecDecode(id)

SpecCodec == InitCodec /\ [][NextCodec]_vars

(***************************************************************************)
(* The receiver, server/src/receiver.rs. The receiver thread runs a        *)
(* current-thread runtime: the listener task and the connection tasks      *)
(* share the thread and run one at a time between their awaits. Numbers    *)
(* that are cast on the way to the table are kept as big-endian bytes.     *)
(***************************************************************************)
\* CollectorCommand::Exit { collector_id }
ExitFrom(id) == [tag |-> "Exit", collector_id |-> id]

\* The chunks a connection reads: a frame as encode writes it, and that
\* frame with its version changed, without its last byte, its last byte
\* alone, with a payload bit flipped, and with a payload that does not
\* parse under a CRC that matches.
ChunkKinds == {"valid", "version", "short", "rest", "crc", "payload"}

ChunkFrame(k) ==
    LET m == CHOOSE x \in MetricsSet : x.cpus = 4
        f == encode(1, SubmitDataOf(1, m), 1)
        g == FlipBit(f, 31)
    IN  CASE k = "valid" -> f
          [] k = "version" -> SubSeq(f, 1, 16) \o BE(2, 2) \o SubSeq(f, 19, Len(f))
          [] k = "short" -> SubSeq(f, 1, Len(f) - 1)
          [] k = "rest" -> SubSeq(f, Len(f), Len(f))
          [] k = "crc" -> g
          [] k = "payload" ->
                SubSeq(g, 1, Len(g) - 4)
                \o CrcBytes(Crc32(SubSeq(g, 31, Len(g) - 4)))

\* shared_data::decode(&buffer[0..n]): Ok, Err or a panic.
DecodeOf == [k \in ChunkKinds |-> decode(1, ChunkFrame(k)).kind]

\* 2^(8n-1) as n bytes: the least number that does not fit the signed
\* type of that width.
TopBit(n) == [i \in 1..n |-> IF i = 1 THEN 128 ELSE 0]

\* The timestamps of the envelopes (u128).
SvTimestamps == {BE(1700000000, 16), BE(0, 8) \o TopBit(8)}

\* The metrics of the envelopes: u64, u64, usize and two f32 in tenths.
SvMetrics ==
    {[total_memory |-> BE(1048576, 8), used_memory |-> BE(524288, 8),
      cpus |-> BE(4, 8), cpu_usage |-> 500, avg_cpu_usage |-> 250],
     [total_memory |-> TopBit(8), used_memory |-> BE(0, 8),
      cpus |-> BE(0, 4) \o TopBit(4), cpu_usage |-> 0, avg_cpu_usage |-> 0]}

SvCommands ==
    {SubmitDataOf(i, m) : i \in Ids, m \in SvMetrics}
    \cup {ExitFrom(i) : i \in Ids}

\* The envelopes that arrive: the first collector submits and exits, the
\* second one submits numbers that do not fit, in the timestamp and in
\* the metrics.
SvEnvelopes ==
    {v \in SvTimestamps \X SvCommands :
        LET fits == v[1] = BE(1700000000, 16)
        IN  IF v[2].tag = "Exit" THEN fits /\ v[2].collector_id = 1
            ELSE fits = (v[2].metrics.cpus = BE(4, 8))
                 /\ fits = (v[2].collector_id = 1)}

\* The runtime polls its tasks: the thread is alive and no task holds it.
Polling == listener \in {"select", "backoff"} /\ blocked = 0

\* Receiver::start: the compare_exchange on running and the spawn of the
\* receiver thread.
ReceiverStart ==
    /\ ~rc_running
    /\ listener = "none"
    /\ rc_running' = TRUE
    /\ listener' = "init"

\* A stop that notifies whether the receiver runs or not.
ReceiverStopAlways ==
    /\ notified' = (notified \/ listener = "select")
    /\ stopped' = TRUE

\* Receiver::stop: nothing when not running, else notify_waiters, which
\* wakes the Notified future of a select! in progress and stores nothing.
ReceiverStop ==
    IF rc_running
    THEN /\ notified' = (notified \/ listener = "select")
         /\ stopped' = TRUE
    ELSE UNCHANGED <<notified, stopped>>

\* The runtime is built and the listener binds: the first select! begins.
ListenerBind ==
    /\ listener = "init"
    /\ listener' = "select"
    /\ UNCHANGED <<rc_running, notified, conn, blocked, held, last, chunks,
                   decoded, lost, stopped, pbuf, p_rx, watchVars,
                   collectorVars, codecVars, webVars, signalVars, restVars>>

\* TcpListener::bind(..).await.unwrap() panics: the thread ends with
\* running left true.
ListenerBindPanic ==
    /\ listener = "init"
    /\ listener' = "panicked"
    /\ UNCHANGED <<rc_running, notified, conn, blocked, held, last, chunks,
                   decoded, lost, stopped, pbuf, p_rx, watchVars,
                   collectorVars, codecVars, webVars, signalVars, restVars>>

\* select!: accept returns a socket; the connection task is spawned and
\* the loop begins the next select! with a new Notified future. The
\* connections are numbered in the order they are accepted.
Accept(c) ==
    /\ Polling
    /\ listener = "select"
    /\ conn[c] = "none"
    /\ \A d \in 1..(c - 1) : conn[d] # "none"
    /\ conn' = [conn EXCEPT ![c] = "read"]
    /\ notified' = FALSE
    /\ UNCHANGED <<rc_running, listener, blocked, held, last, chunks, decoded,
                   lost, stopped, pbuf, p_rx, watchVars, collectorVars,
                   codecVars, webVars, signalVars, restVars>>

\* select!: accept returns an error; the task sleeps 100 ms.
AcceptErr ==
    /\ Polling
    /\ listener = "select"
    /\ listener' = "backoff"
    /\ notified' = FALSE
    /\ UNCHANGED <<rc_running, conn, blocked, held, last, chunks, decoded,
                   lost, stopped, pbuf, p_rx, watchVars, collectorVars,
                   codecVars, webVars, signalVars, restVars>>

\* The sleep is over: the next select! begins.
BackoffEnds ==
    /\ Polling
    /\ listener = "backoff"
    /\ listener' = "select"
    /\ UNCHANGED <<rc_running, notified, conn, blocked, held, last, chunks,
                   decoded, lost, stopped, pbuf, p_rx, watchVars,
                   collectorVars, codecVars, webVars, signalVars, restVars>>

\* select!: notified() is ready; break, running.store(false).
ListenerBreak ==
    /\ Polling
    /\ listener = "select"
    /\ notified
    /\ listener' = "exited"
    /\ rc_running' = FALSE
    /\ UNCHANGED <<notified, conn, blocked, held, last, chunks, decoded,
                   lost, stopped, pbuf, p_rx, watchVars, collectorVars,
                   codecVars, webVars, signalVars, restVars>>

\* block_on returns and the runtime is dropped with the connection tasks
\* it still has.
RuntimeDropped ==
    /\ listener = "exited"
    /\ listener' = "done"
    /\ conn' = [c \in Conns |-> IF conn[c] = "read" THEN "dropped"
                                ELSE conn[c]]
    /\ UNCHANGED <<rc_running, notified, blocked, held, last, chunks,
                   decoded, lost, stopped, pbuf, p_rx, watchVars,
                   collectorVars, codecVars, webVars, signalVars, restVars>>

\* The receiver thread has ended, and every clone of the sender with it.
ThreadOver == listener \in {"done", "panicked"}

\* sender.send(pair) of std's SyncSender does not return while P is full
\* and its receiver lives.
CanSend == ~p_rx \/ Len(pbuf) < PCap

\* let _ = sender.send(pair): the pair enters P, or the send fails and the
\* result is ignored.
Sent(pair) ==
    IF p_rx
    THEN pbuf' = Append(pbuf, pair) /\ lost' = lost
    ELSE pbuf' = pbuf /\ lost' = lost \cup {pair.n}

\* socket.read returns 0: the task returns.
ReadEof(c) ==
    /\ Polling
    /\ conn[c] = "read"
    /\ conn' = [conn EXCEPT ![c] = "closed"]
    /\ UNCHANGED <<rc_running, listener, notified, blocked, held, last,
                   chunks, decoded, lost, stopped, pbuf, p_rx, watchVars,
                   collectorVars, codecVars, webVars, signalVars, restVars>>

\* The errors socket.read returns: the code does not look at the kind, and
\* the one drawn here is one that every later read returns again.
ReadErrors == {"reset"}

\* socket.read returns Err(ex): println and continue, whatever the error.
ReadErr(c, e) ==
    /\ Polling
    /\ conn[c] = "read"
    /\ last' = [conn |-> c, kind |-> e]
    /\ UNCHANGED <<rc_running, listener, notified, conn, blocked, held,
                   chunks, decoded, lost, stopped, pbuf, p_rx, watchVars,
                   collectorVars, codecVars, webVars, signalVars, restVars>>

\* socket.read returns a chunk that decode does not accept: an Err is
\* printed and the loop goes on; a panic ends the task.
ReadMalformed(c, k) ==
    /\ Polling
    /\ conn[c] = "read"
    /\ chunks < MaxChunks
    /\ DecodeOf[k] # "Ok"
    /\ chunks' = chunks + 1
    /\ last' = [conn |-> c, kind |-> k]
    /\ conn' = [conn EXCEPT ![c] = IF DecodeOf[k] = "Panic" THEN "panicked"
                                   ELSE "read"]
    /\ UNCHANGED <<rc_running, listener, notified, blocked, held, decoded,
                   lost, stopped, pbuf, p_rx, watchVars, collectorVars,
                   codecVars, webVars, signalVars, restVars>>

\* socket.read returns a chunk that decodes to (timestamp, command), which
\* is sent to P; the send may not return.
ReadValid(c, k, timestamp, cmd) ==
    /\ Polling
    /\ conn[c] = "read"
    /\ chunks < MaxChunks
    /\ DecodeOf[k] = "Ok"
    /\ chunks' = chunks + 1
    /\ last' = [conn |-> c, kind |-> k]
    /\ decoded' = decoded + 1
    /\ LET pair == [n |-> decoded + 1, timestamp |-> timestamp,
                    command |-> cmd]
       IN  IF CanSend
           THEN Sent(pair) /\ UNCHANGED <<conn, blocked, held>>
           ELSE /\ conn' = [conn EXCEPT ![c] = "send"]
                /\ blocked' = c
                /\ held' = pair
                /\ UNCHANGED <<pbuf, lost>>
    /\ UNCHANGED <<rc_running, listener, notified, stopped, p_rx, watchVars,
                   collectorVars, codecVars, webVars, signalVars, restVars>>

\* The send that held the thread returns.
SendReturns(c) ==
    /\ blocked = c
    /\ CanSend
    /\ Sent(held)
    /\ conn' = [conn EXCEPT ![c] = "read"]
    /\ blocked' = 0
    /\ held' = NoItem
    /\ UNCHANGED <<rc_running, listener, notified, last, chunks, decoded,
                   stopped, p_rx, watchVars, collectorVars, codecVars, webVars,
                   signalVars, restVars>>

ReceiverThread ==
    \/ ListenerBind
    \/ ListenerBindPanic
    \/ \E c \in Conns : Accept(c)
    \/ AcceptErr
    \/ BackoffEnds
    \/ ListenerBreak
    \/ RuntimeDropped
    \/ \E c \in Conns : ReadEof(c)
    \/ \E c \in Conns, e \in ReadErrors : ReadErr(c, e)
    \/ \E c \in Conns, k \in ChunkKinds : ReadMalformed(c, k)
    \/ \E c \in Conns, k \in ChunkKinds, v \in SvEnvelopes :
          ReadValid(c, k, v[1], v[2])
    \/ \E c \in Conns : SendReturns(c)

(***************************************************************************)
(* SpecReceiver: the Receiver object driven by an arbitrary client that    *)
(* starts it, stops it and owns the receiving end of P.                    *)
(***************************************************************************)
\* The client calls start; start_result is what the call returned. On a
\* running receiver the compare_exchange fails and start returns the
\* error before anything is spawned.
RcvStart ==
    /\ IF rc_running
       THEN /\ start_result' = "AlreadyRunning"
            /\ UNCHANGED <<rc_running, listener>>
       ELSE /\ ReceiverStart
            /\ start_result' = "Ok"
    /\ UNCHANGED <<notified, conn, blocked, held, last, chunks, decoded,
                   lost, stopped, pbuf, p_rx, watchVars, running,
                   stop_requested, workerVars, chanVars, now, ticks,
                   mainVars, codecVars, webVars, signalVars, restVars>>

RcvStop ==
    /\ ReceiverStop
    /\ UNCHANGED <<rc_running, listener, conn, blocked, held, last, chunks,
                   decoded, lost, pbuf, p_rx, watchVars, collectorVars,
                   codecVars, webVars, signalVars, restVars>>

\* The client receives a pair from P.
RcvRecv ==
    /\ p_rx
    /\ pbuf # <<>>
    /\ pbuf' = Tail(pbuf)
    /\ UNCHANGED <<receiverVars, p_rx, watchVars, collectorVars, codecVars, webVars,
                   signalVars, restVars>>

\* The client drops the receiving end of P.
RcvDropRx ==
    /\ p_rx
    /\ p_rx' = FALSE
    /\ pbuf' = <<>>
    /\ UNCHANGED <<receiverVars, watchVars, collectorVars, codecVars, webVars,
                   signalVars, restVars>>

InitReceiver ==
    /\ CollectorNew
    /\ mainpc = "receiver"
    /\ CodecIdle
    /\ ServerIdle
    /\ SignalIdle
    /\ UserStoreNew

NextReceiver ==
    \/ RcvStart
    \/ RcvStop
    \/ RcvRecv
    \/ RcvDropRx
    \/ ReceiverThread

SpecReceiver == InitReceiver /\ [][NextReceiver]_vars

(***************************************************************************)
(* SpecServer: the server program (server/src/main.rs): watch_metrics      *)
(* starts the receiver and drains P into the timeseries table.             *)
(***************************************************************************)
HexDigit(d) == IF d < 10 THEN 48 + d ELSE 87 + d

RECURSIVE HexOf(_)
HexOf(bs) ==
    IF bs = <<>> THEN <<>>
    ELSE <<HexDigit(Head(bs) \div 16), HexDigit(Head(bs) % 16)>>
         \o HexOf(Tail(bs))

\* Uuid::from_u128(collector_id).to_string(): 8-4-4-4-12 hex digits.
UuidText(id) ==
    LET h == HexOf(BE(id, 16))
    IN  SubSeq(h, 1, 8) \o <<45>> \o SubSeq(h, 9, 12) \o <<45>>
        \o SubSeq(h, 13, 16) \o <<45>> \o SubSeq(h, 17, 20) \o <<45>>
        \o SubSeq(h, 21, 32)

\* v as iN: the low n bytes, read as a signed number.
AsSigned(bs, n) == SubSeq(bs, Len(bs) - n + 1, Len(bs))

\* The row add_metrics binds for a pair; of is the pair it was made of.
RowOf(pair) ==
    [of |-> pair.n,
     collector_id |-> UuidText(pair.command.collector_id),
     received |-> AsSigned(pair.timestamp, 8),
     total_memory |-> AsSigned(pair.command.metrics.total_memory, 8),
     used_memory |-> AsSigned(pair.command.metrics.used_memory, 8),
     cpus |-> AsSigned(pair.command.metrics.cpus, 4),
     cpu_usage |-> pair.command.metrics.cpu_usage,
     avg_cpu_usage |-> pair.command.metrics.avg_cpu_usage]

\* watch_metrics: the channel P, Receiver::new, receiver.start(sender).
WatchMetrics ==
    /\ watch = "none"
    /\ ReceiverStart
    /\ watch' = "recv"
    /\ UNCHANGED <<notified, conn, blocked, held, last, chunks, decoded,
                   lost, stopped, pbuf, p_rx, item, dequeued, rows,
                   collectorVars, codecVars, webVars, signalVars, restVars>>

\* match command: the arm of Exit is break 'main_loop.
OnExit == "stop"

\* rx.recv() returns Ok((timestamp, command)).
WatchRecvOk ==
    /\ watch = "recv"
    /\ pbuf # <<>>
    /\ item' = Head(pbuf)
    /\ pbuf' = Tail(pbuf)
    /\ dequeued' = Append(dequeued, Head(pbuf))
    /\ watch' = IF Head(pbuf).command.tag = "SubmitData" THEN "insert"
                ELSE OnExit
    /\ UNCHANGED <<receiverVars, p_rx, rows, collectorVars, codecVars, webVars,
                   signalVars, restVars>>

\* rx.recv() returns Err: P is empty and every sender is dropped.
WatchRecvErr ==
    /\ watch = "recv"
    /\ pbuf = <<>>
    /\ ThreadOver
    /\ watch' = "stop"
    /\ UNCHANGED <<receiverVars, pbuf, p_rx, item, dequeued, rows,
                   collectorVars, codecVars, webVars, signalVars, restVars>>

\* data::add_metrics(..).await: the INSERT adds one row, or fails and is
\* printed.
WatchInsertFailEnds(ok) ==
    /\ watch = "insert"
    /\ rows' = IF ok THEN Append(rows, RowOf(item)) ELSE rows
    /\ watch' = IF ok THEN "recv" ELSE "stop"
    /\ UNCHANGED <<receiverVars, pbuf, p_rx, item, dequeued, collectorVars,
                   codecVars, webVars, signalVars, restVars>>

WatchInsert(ok) ==
    /\ watch = "insert"
    /\ rows' = IF ok THEN Append(rows, RowOf(item)) ELSE rows
    /\ watch' = "recv"
    /\ UNCHANGED <<receiverVars, pbuf, p_rx, item, dequeued, collectorVars,
                   codecVars, webVars, signalVars, restVars>>

\* receiver.stop()
WatchStop ==
    /\ watch = "stop"
    /\ ReceiverStop
    /\ watch' = "join"
    /\ UNCHANGED <<rc_running, listener, conn, blocked, held, last, chunks,
                   decoded, lost, pbuf, p_rx, item, dequeued, rows,
                   collectorVars, codecVars, webVars, signalVars, restVars>>

\* handle.join() returns; the task ends and drops rx.
WatchJoin ==
    /\ watch = "join"
    /\ ThreadOver
    /\ watch' = "ended"
    /\ p_rx' = FALSE
    /\ pbuf' = <<>>
    /\ UNCHANGED <<receiverVars, item, dequeued, rows, collectorVars,
                   codecVars, webVars, signalVars, restVars>>

(***************************************************************************)
(* The read queries of mod data. The received column is text: the number   *)
(* add_metrics binds is kept in it as its decimal digits, and the queries  *)
(* parse the text as u128.                                                 *)
(***************************************************************************)
IsZero(bs) == \A i \in 1..Len(bs) : bs[i] = 0

\* The bytes divided by ten: quotient and remainder.
RECURSIVE DivMod10(_, _, _)
DivMod10(bs, r, acc) ==
    IF bs = <<>> THEN [q |-> acc, r |-> r]
    ELSE LET cur == 256 * r + Head(bs)
         IN  DivMod10(Tail(bs), cur % 10, Append(acc, cur \div 10))

RECURSIVE DecDigits(_)
DecDigits(bs) ==
    IF IsZero(bs) THEN <<>>
    ELSE LET d == DivMod10(bs, 0, <<>>)
         IN  Append(DecDigits(d.q), 48 + d.r)

\* The decimal digits of an unsigned number.
DecOf(bs) == IF IsZero(bs) THEN <<48>> ELSE DecDigits(bs)

RECURSIVE AddOne(_)
AddOne(bs) ==
    IF bs = <<>> THEN <<>>
    ELSE LET front == SubSeq(bs, 1, Len(bs) - 1)
         IN  IF bs[Len(bs)] = 255 THEN Append(AddOne(front), 0)
             ELSE Append(front, bs[Len(bs)] + 1)

\* The magnitude of a negative two's-complement number.
Negate(bs) == AddOne([i \in 1..Len(bs) |-> 255 - bs[i]])

\* A signed integer as text, as the text column keeps it.
SignedText(bs) ==
    IF bs[1] >= 128 THEN <<45>> \o DecOf(Negate(bs)) ELSE DecOf(bs)

\* The received column of a row.
ReceivedColumn(r) == SignedText(r.received)

\* bs * 10 + carry, in the width of bs.
RECURSIVE MulAdd10(_, _)
MulAdd10(bs, carry) ==
    IF bs = <<>> THEN [bytes |-> <<>>, carry |-> carry]
    ELSE LET cur == 10 * bs[Len(bs)] + carry
             front == MulAdd10(SubSeq(bs, 1, Len(bs) - 1), cur \div 256)
         IN  [bytes |-> Append(front.bytes, cur % 256),
              carry |-> front.carry]

RECURSIVE ParseDigits(_, _)
ParseDigits(text, acc) ==
    IF text = <<>> THEN [ok |-> TRUE, value |-> acc]
    ELSE IF ~IsDigit(Head(text)) THEN [ok |-> FALSE]
    ELSE LET m == MulAdd10(acc, Head(text) - 48)
         IN  IF m.carry # 0 THEN [ok |-> FALSE]
             ELSE ParseDigits(Tail(text), m.bytes)

\* text.parse::<u128>(): digits after an optional plus sign, in range.
ParseU128(text) ==
    LET digits == IF text # <<>> /\ text[1] = 43 THEN Tail(text) ELSE text
    IN  IF digits = <<>> THEN [ok |-> FALSE]
        ELSE ParseDigits(digits, BE(0, 16))

\* The order of texts in the database: byte by byte, a prefix first.
RECURSIVE TextLess(_, _)
TextLess(a, b) ==
    IF b = <<>> THEN FALSE
    ELSE IF a = <<>> THEN TRUE
    ELSE IF Head(a) # Head(b) THEN Head(a) < Head(b)
    ELSE TextLess(Tail(a), Tail(b))

\* MAX(received) of a set of texts.
TextMax(S) == CHOOSE x \in S : \A y \in S : ~TextLess(x, y)

\* data::get_metrics: SELECT * FROM TIMESERIES, then received.parse()
\* .unwrap() for every row.
GetMetrics ==
    LET parsed == [i \in 1..Len(rows) |-> ParseU128(ReceivedColumn(rows[i]))]
    IN  IF \E i \in 1..Len(rows) : ~parsed[i].ok
        THEN [query |-> "metrics", kind |-> "Panic"]
        ELSE [query |-> "metrics", kind |-> "Ok",
              points |-> [i \in 1..Len(rows) |->
                             [of |-> rows[i].of,
                              received |-> parsed[i].value]]]

\* SELECT collector_id, MAX(received) AS last_seen .. GROUP BY
\* collector_id: one entry for each collector id of the table.
Groups ==
    {[collector_id |-> id,
      last_seen |-> TextMax({ReceivedColumn(rows[i]) :
                      i \in {j \in 1..Len(rows) : rows[j].collector_id = id}})] :
        id \in {rows[i].collector_id : i \in 1..Len(rows)}}

\* ORDER BY last_seen: the entries in an order the database may return.
Ordered(es) ==
    /\ Len(es) = Cardinality(Groups)
    /\ {es[i] : i \in 1..Len(es)} = Groups
    /\ \A i, j \in 1..Len(es) :
          i < j => ~TextLess(es[j].last_seen, es[i].last_seen)

\* data::get_collectors: the query, then last_seen.parse().unwrap() for
\* every entry.
GetCollectors(es) ==
    LET parsed == [i \in 1..Len(es) |-> ParseU128(es[i].last_seen)]
    IN  IF \E i \in 1..Len(es) : ~parsed[i].ok
        THEN [query |-> "collectors", kind |-> "Panic"]
        ELSE [query |-> "collectors", kind |-> "Ok",
              entries |-> [i \in 1..Len(es) |->
                              [collector_id |-> es[i].collector_id,
                               last_seen |-> parsed[i].value]]]

\* The envelopes whose rows the table holds: the first collector's clock
\* has fewer digits at one time than at another, the second collector's
\* is past the signed range at one time.
WebEnvelopes ==
    {v \in {BE(999999999, 16), BE(1700000000, 16), BE(0, 8) \o TopBit(8)}
            \X {c \in SvCommands : c.tag = "SubmitData"} :
        /\ v[2].metrics.cpus = BE(4, 8)
        /\ IF v[2].collector_id = 1 THEN v[1] # BE(0, 8) \o TopBit(8)
           ELSE v[1] # BE(999999999, 16)}

\* The arm of SubmitData in watch_metrics: add_metrics inserts the row of
\* the pair it is given.
WebAddMetrics ==
    /\ Len(rows) < MaxRows
    /\ \E v \in WebEnvelopes :
          LET pair == [n |-> Len(rows) + 1, timestamp |-> v[1],
                       command |-> v[2]]
          IN  /\ dequeued' = Append(dequeued, pair)
              /\ rows' = Append(rows, RowOf(pair))
    /\ UNCHANGED <<receiverVars, pbuf, p_rx, watch, item, collectorVars,
                   codecVars, webVars, signalVars, restVars>>

\* GET /api/metrics
ShowMetrics ==
    /\ shown' = GetMetrics
    /\ UNCHANGED <<receiverVars, pbuf, p_rx, watchVars, collectorVars,
                   codecVars, signalVars, restVars>>

\* GET /api/collectors
ShowCollectors ==
    /\ \E es \in UNION {[1..n -> Groups] : n \in {Cardinality(Groups)}} :
          /\ Ordered(es)
          /\ shown' = GetCollectors(es)
    /\ UNCHANGED <<receiverVars, pbuf, p_rx, watchVars, collectorVars,
                   codecVars, signalVars, restVars>>

InitServer ==
    /\ CollectorNew
    /\ mainpc = "server"
    /\ CodecIdle
    /\ ServerIdle
    /\ SignalIdle
    /\ UserStoreNew

NextServer ==
    \/ WatchMetrics
    \/ WatchRecvOk
    \/ WatchRecvErr
    \/ \E ok \in BOOLEAN : WatchInsert(ok)
    \/ WatchStop
    \/ WatchJoin
    \/ ReceiverThread

SpecServer == InitServer /\ [][NextServer]_vars

InitWeb ==
    /\ CollectorNew
    /\ mainpc = "web"
    /\ CodecIdle
    /\ ServerIdle
    /\ SignalIdle
    /\ UserStoreNew

NextWeb ==
    \/ WebAddMetrics
    \/ ShowMetrics
    \/ ShowCollectors

SpecWeb == InitWeb /\ [][NextWeb]_vars

(***************************************************************************)
(* Signal: a bool under a Mutex and a Condvar. Each method holds the lock   *)
(* for its whole body; Condvar::wait gives the lock up while the thread    *)
(* is blocked and takes it again before it returns.                        *)
(***************************************************************************)
OtherVars == <<collectorVars, codecVars, serverVars, restVars>>

\* Signal::set: the flag becomes true and notify_all wakes every thread
\* blocked on the Condvar.
SignalSet ==
    /\ sets < MaxSets
    /\ signaled' = TRUE
    /\ sig_pc' = [s \in Waiters |->
                     IF sig_pc[s] \in {"blocked", "timed", "woken"}
                     THEN "notified" ELSE sig_pc[s]]
    /\ sig_last' = "set"
    /\ sets' = sets + 1
    /\ UNCHANGED <<sig_how, resets, sig_d, sig_el, OtherVars>>

\* Signal::reset
SignalReset ==
    /\ resets < MaxResets
    /\ signaled' = FALSE
    /\ sig_last' = "reset"
    /\ resets' = resets + 1
    /\ UNCHANGED <<sig_pc, sig_how, sets, sig_d, sig_el, OtherVars>>

\* A wait that returns on a true flag and leaves it true.
WaitLoopKeepsFlag(s, blockedBefore) ==
    IF signaled
    THEN /\ sig_pc' = [sig_pc EXCEPT ![s] = "idle"]
         /\ sig_last' = "waited"
         /\ sig_how' = [sig_how EXCEPT
                           ![s] = IF blockedBefore THEN "woken" ELSE "direct"]
         /\ UNCHANGED signaled
    ELSE /\ sig_pc' = [sig_pc EXCEPT ![s] = "blocked"]
         /\ sig_how' = [sig_how EXCEPT ![s] = "blocked"]
         /\ UNCHANGED <<signaled, sig_last>>

\* while !*signaled { cvar.wait } and *signaled = false, from the lock or
\* from the return of cvar.wait: the thread blocks on a false flag, and
\* on a true one it clears the flag and returns.
WaitLoop(s, blockedBefore) ==
    IF signaled
    THEN /\ signaled' = FALSE
         /\ sig_pc' = [sig_pc EXCEPT ![s] = "idle"]
         /\ sig_last' = "waited"
         /\ sig_how' = [sig_how EXCEPT
                           ![s] = IF blockedBefore THEN "woken" ELSE "direct"]
    ELSE /\ sig_pc' = [sig_pc EXCEPT ![s] = "blocked"]
         /\ sig_how' = [sig_how EXCEPT ![s] = "blocked"]
         /\ UNCHANGED <<signaled, sig_last>>

\* A wait that always sleeps on the Condvar before it looks at the flag.
WaitBeginSleepsFirst(s) ==
    /\ sig_pc[s] = "idle"
    /\ sig_pc' = [sig_pc EXCEPT ![s] = "blocked"]
    /\ sig_how' = [sig_how EXCEPT ![s] = "blocked"]
    /\ UNCHANGED <<signaled, sig_last, sets, resets, sig_d, sig_el, OtherVars>>

\* Signal::wait is called: lock, then the loop.
WaitBegin(s) ==
    /\ sig_pc[s] = "idle"
    /\ WaitLoop(s, FALSE)
    /\ sig_d' = [sig_d EXCEPT ![s] = -1]
    /\ UNCHANGED <<sets, resets, sig_el, OtherVars>>

\* The loop of wait_timeout, from the lock or from the return of
\* cvar.wait_timeout: on a true flag it clears the flag and returns true;
\* on a false one it returns false when no time remains and sleeps on the
\* Condvar for the remaining time otherwise.
TimedLoop(s, d, elapsed, blockedBefore) ==
    IF signaled
    THEN /\ signaled' = FALSE
         /\ sig_pc' = [sig_pc EXCEPT ![s] = "idle"]
         /\ sig_last' = "waited"
         /\ sig_how' = [sig_how EXCEPT
                           ![s] = IF blockedBefore THEN "woken" ELSE "direct"]
    ELSE IF elapsed >= d
    THEN /\ sig_pc' = [sig_pc EXCEPT ![s] = "idle"]
         /\ sig_how' = [sig_how EXCEPT ![s] = "timeout"]
         /\ UNCHANGED <<signaled, sig_last>>
    ELSE /\ sig_pc' = [sig_pc EXCEPT ![s] = "timed"]
         /\ sig_how' = [sig_how EXCEPT ![s] = "blocked"]
         /\ UNCHANGED <<signaled, sig_last>>

\* Thread s is inside a call of wait_timeout.
InTimed(s) == sig_d[s] >= 0 /\ sig_pc[s] # "idle"

\* Signal::wait_timeout(d) is called: a zero timeout is self.wait(), any
\* other one the timed loop.
WaitTimeoutBegin(s, d) ==
    /\ sig_pc[s] = "idle"
    /\ sig_d' = [sig_d EXCEPT ![s] = d]
    /\ sig_el' = [sig_el EXCEPT ![s] = 0]
    /\ IF d = 0 THEN WaitLoop(s, FALSE) ELSE TimedLoop(s, d, 0, FALSE)
    /\ UNCHANGED <<sets, resets, OtherVars>>

\* cvar.wait_timeout returns because its time is over.
TimerFires(s) ==
    /\ sig_pc[s] = "timed"
    /\ sig_el[s] >= sig_d[s]
    /\ sig_pc' = [sig_pc EXCEPT ![s] = "woken"]
    /\ UNCHANGED <<signaled, sig_last, sig_how, sets, resets, sig_d, sig_el,
                   OtherVars>>

\* Time passes for the calls of wait_timeout in progress; a thread in
\* cvar.wait_timeout is woken when its time is over.
SignalTick ==
    /\ \E s \in Waiters : InTimed(s) /\ sig_el[s] <= sig_d[s]
    /\ \A s \in Waiters : sig_pc[s] = "timed" => sig_el[s] < sig_d[s]
    /\ sig_el' = [s \in Waiters |->
                     IF InTimed(s) /\ sig_el[s] <= sig_d[s]
                     THEN sig_el[s] + 1 ELSE sig_el[s]]
    /\ UNCHANGED <<signaled, sig_pc, sig_last, sig_how, sets, resets, sig_d,
                   OtherVars>>

\* cvar.wait returns without a notification, as a Condvar may.
WaitSpurious(s) ==
    /\ sig_pc[s] \in {"blocked", "timed"}
    /\ sig_pc' = [sig_pc EXCEPT ![s] = "woken"]
    /\ UNCHANGED <<signaled, sig_last, sig_how, sets, resets, sig_d, sig_el,
                   OtherVars>>

\* cvar.wait has returned with the lock: the loop again.
WaitRecheck(s) ==
    /\ sig_pc[s] \in {"woken", "notified"}
    /\ IF sig_d[s] > 0 THEN TimedLoop(s, sig_d[s], sig_el[s], TRUE)
       ELSE WaitLoop(s, TRUE)
    /\ UNCHANGED <<sets, resets, sig_d, sig_el, OtherVars>>

InitSignal ==
    /\ CollectorNew
    /\ mainpc = "signal"
    /\ CodecIdle
    /\ ServerIdle
    /\ SignalIdle
    /\ UserStoreNew

NextSignal ==
    \/ SignalSet
    \/ SignalReset
    \/ \E s \in Waiters : WaitBegin(s)
    \/ \E s \in Waiters : WaitSpurious(s)
    \/ \E s \in Waiters : WaitRecheck(s)

\* A thread that cvar.wait has woken gets the lock and runs on.
SpecSignal ==
    /\ InitSignal
    /\ [][NextSignal]_vars
    /\ \A s \in Waiters : WF_vars(WaitRecheck(s))

\* Signal with callers of wait_timeout beside those of wait.
NextTimed ==
    \/ NextSignal
    \/ \E s \in Waiters, d \in 0..MaxTimeout : WaitTimeoutBegin(s, d)
    \/ \E s \in Waiters : TimerFires(s)
    \/ SignalTick

SpecTimed ==
    /\ InitSignal
    /\ [][NextTimed]_vars
    /\ \A s \in Waiters : WF_vars(WaitRecheck(s))

(***************************************************************************)
(* SpecStore: UserStore of session01/authentication/src/lib.rs.            *)
(* Strings are numbered; 0 is the empty string.                            *)
(***************************************************************************)
\* User::is_valid_for_update and User::is_valid
is_valid_for_update(u) == u.id # 0 /\ u.username # 0

is_valid(u) ==
    is_valid_for_update(u) /\ u.password_hash # 0 /\ u.role # "None"

\* BiMap: a set of (left, right) pairs with no left and no right twice.
\* insert removes the pairs that hold the left or the right value.
contains_left(m, l) == \E x \in m : x[1] = l

BiInsert(m, l, r) == {x \in m : x[1] # l /\ x[2] # r} \cup {<<l, r>>}

remove_by_left(m, l) == {x \in m : x[1] # l}

remove_by_right(m, r) == {x \in m : x[2] # r}

\* HashMap::insert and HashMap::remove
MapInsert(h, key, v) ==
    [x \in DOMAIN h \cup {key} |-> IF x = key THEN v ELSE h[x]]

MapRemove(h, key) == [x \in DOMAIN h \ {key} |-> h[x]]

None == [none |-> TRUE]

\* UserStore::get
get(id) ==
    IF id = 0 THEN None
    ELSE IF id \in DOMAIN users THEN users[id] ELSE None

\* UserStore::get_by_username
get_by_username(username) ==
    IF username = 0 \/ ~contains_left(username_map, username) THEN None
    ELSE LET id == (CHOOSE x \in username_map : x[1] = username)[2]
         IN  IF id \in DOMAIN users THEN users[id] ELSE None

\* UserStore::add
StoreAdd(u) ==
    /\ IF ~is_valid(u)
       THEN /\ st_last' = [op |-> "add", user |-> u, ok |-> FALSE]
            /\ UNCHANGED <<users, username_map>>
       ELSE IF u.id \in DOMAIN users \/ contains_left(username_map, u.username)
       THEN /\ st_last' = [op |-> "add", user |-> u, ok |-> FALSE]
            /\ UNCHANGED <<users, username_map>>
       ELSE /\ users' = MapInsert(users, u.id, u)
            /\ username_map' = BiInsert(username_map, u.username, u.id)
            /\ st_last' = [op |-> "add", user |-> u, ok |-> TRUE]
    /\ UNCHANGED <<collectorVars, codecVars, serverVars, signalVars, handles>>

\* The user update stores for a stored id: an empty password hash and the
\* role None keep the stored values.
Merged(existing, u) ==
    [u EXCEPT !.password_hash = IF u.password_hash = 0
                                THEN existing.password_hash ELSE @,
              !.role = IF u.role = "None" THEN existing.role ELSE @]

\* UserStore::update
StoreUpdate(u) ==
    /\ IF ~is_valid_for_update(u)
       THEN /\ st_last' = [op |-> "update", user |-> u, ok |-> FALSE,
                           stored |-> FALSE, renamed |-> FALSE]
            /\ UNCHANGED <<users, username_map>>
       ELSE IF u.id \in DOMAIN users
       THEN LET existing == users[u.id]
                renamed == existing.username # u.username
            IN  IF renamed /\ contains_left(username_map, u.username)
                THEN /\ st_last' = [op |-> "update", user |-> u,
                                    ok |-> FALSE, stored |-> TRUE,
                                    renamed |-> TRUE]
                     /\ UNCHANGED <<users, username_map>>
                ELSE /\ users' = MapInsert(users, u.id, Merged(existing, u))
                     /\ username_map' =
                          BiInsert(IF renamed
                                   THEN BiInsert(remove_by_left(username_map,
                                                     existing.username),
                                                 u.username, u.id)
                                   ELSE username_map,
                                   u.username, u.id)
                     /\ st_last' = [op |-> "update", user |-> u, ok |-> TRUE,
                                    stored |-> TRUE, renamed |-> renamed]
       ELSE /\ users' = MapInsert(users, u.id, u)
            /\ username_map' = BiInsert(username_map, u.username, u.id)
            /\ st_last' = [op |-> "update", user |-> u, ok |-> TRUE,
                           stored |-> FALSE, renamed |-> FALSE]
    /\ UNCHANGED <<collectorVars, codecVars, serverVars, signalVars, handles>>

\* UserStore::remove: what it does to the two maps, and whether it is Ok.
RemoveMaps(id) ==
    IF id \in DOMAIN users
    THEN /\ users' = MapRemove(users, id)
         /\ username_map' = remove_by_right(username_map, users[id].id)
    ELSE UNCHANGED <<users, username_map>>

\* UserStore::remove
StoreRemove(id) ==
    /\ RemoveMaps(id)
    /\ st_last' = [op |-> "remove", id |-> id,
                   username |-> IF id \in DOMAIN users
                                THEN users[id].username ELSE 0,
                   ok |-> id \in DOMAIN users]
    /\ UNCHANGED <<collectorVars, codecVars, serverVars, signalVars, handles>>

\* UserStore::remove_by_username
StoreRemoveByUsername(username) ==
    /\ IF contains_left(username_map, username)
       THEN LET id == (CHOOSE x \in username_map : x[1] = username)[2]
            IN  /\ RemoveMaps(id)
                /\ st_last' = [op |-> "remove_by_username", id |-> id,
                               username |-> username,
                               ok |-> id \in DOMAIN users]
       ELSE /\ st_last' = [op |-> "remove_by_username", id |-> 0,
                           username |-> username, ok |-> FALSE]
            /\ UNCHANGED <<users, username_map>>
    /\ UNCHANGED <<collectorVars, codecVars, serverVars, signalVars, handles>>

\* UserStore::clear
StoreClear ==
    /\ users' = <<>>
    /\ username_map' = {}
    /\ st_last' = [op |-> "clear"]
    /\ UNCHANGED <<collectorVars, codecVars, serverVars, signalVars, handles>>

InitStore ==
    /\ CollectorNew
    /\ mainpc = "store"
    /\ CodecIdle
    /\ ServerIdle
    /\ SignalIdle
    /\ UserStoreNew

NextStore ==
    \/ \E u \in Users : StoreAdd(u)
    \/ \E u \in Users : StoreUpdate(u)
    \/ \E id \in UserIds : StoreRemove(id)
    \/ \E username \in Usernames : StoreRemoveByUsername(username)
    \/ StoreClear

SpecStore == InitStore /\ [][NextStore]_vars

(***************************************************************************)
(* Properties of the collector.                                            *)
(***************************************************************************)
AliveWorkers == {w \in Workers : Alive(w)}

\* The publish calls so far, as the commands they were given.
Published == [i \in 1..Len(pubs) |-> pubs[i].cmd]

\* The commands of the publish calls that succeeded, in order.
Wire ==
    LET okPubs == SelectSeq(pubs, LAMBDA e : e.ok)
    IN  [i \in 1..Len(okPubs) |-> okPubs[i].cmd]

\* Every command the sampler put into Q, in order.
Enqueued == [i \in 1..sent |-> SubmitData(i)]

IsSubmit(c) == c.tag = "SubmitData"

RECURSIVE IsSubseq(_, _)
IsSubseq(a, b) ==
    IF a = <<>> THEN TRUE
    ELSE IF b = <<>> THEN FALSE
    ELSE IF Head(a) = Head(b) THEN IsSubseq(Tail(a), Tail(b))
    ELSE IsSubseq(a, Tail(b))

\* The number of failed publish calls at the end of the history.
RECURSIVE TrailingFails(_)
TrailingFails(h) ==
    IF h = <<>> \/ h[Len(h)].ok THEN 0
    ELSE 1 + TrailingFails(SubSeq(h, 1, Len(h) - 1))

Fails == {i \in 1..Len(pubs) : ~pubs[i].ok}
OkSubmits == {i \in 1..Len(pubs) : pubs[i].ok /\ IsSubmit(pubs[i].cmd)}
Exits == {i \in 1..Len(pubs) : pubs[i].cmd = Exit}
LoopLeft == mainpc \in {"stop", "join", "end"}

\* C1: at most one sampler worker thread of a Collector is alive at any
\* time: a start made while an earlier worker still lives spawns nothing.
C1_OneWorkerAlive == Cardinality(AliveWorkers) <= 1

\* C2: after a tick body that overran the following deadline, no tick body
\* starts without the sampler first sleeping to a deadline in the future:
\* the missed tick is never fired late.
C2_MissedTickNotFired == \A w \in Workers : pc[w] = "body" => ~overran[w]

C4_StopUnblocksSend ==
    \A w \in Workers : (pc[w] = "send" /\ stop_requested) => SendReady

\* C5: the sender aborts exactly when ERRORS publish calls in a row have
\* failed; a success resets the count, and with no success at all it
\* aborts after exactly ERRORS attempts.
C5_ErrorCutoff ==
    /\ (ended = "errors") <=> (TrailingFails(pubs) = ERRORS)
    /\ TrailingFails(pubs) <= ERRORS
    /\ ended = "errors" => LoopLeft
    /\ (ended = "errors" /\ OkSubmits = {}) => Len(pubs) = ERRORS

\* C5 witness: the sender aborted, after more than ERRORS failures in all,
\* with a success among them.
C5_Witness ==
    /\ ended = "errors"
    /\ OkSubmits # {}
    /\ Cardinality(Fails) > ERRORS

\* C6: Exit is published once, right after the TRIES-th successful
\* SubmitData publish, and nothing after it; at most TRIES SubmitData are
\* published successfully; no Exit after error cutoff or queue closure.
C6_ExitOnce ==
    /\ Cardinality(Exits) <= 1
    /\ \A i \in Exits :
          /\ i = Len(pubs)
          /\ i - 1 \in OkSubmits
          /\ Cardinality(OkSubmits) = TRIES
          /\ LoopLeft
    /\ Cardinality(OkSubmits) <= TRIES
    /\ (Cardinality(OkSubmits) = TRIES) <=> (ended = "messages")
    /\ (ended = "messages" /\ LoopLeft) => Exits # {}
    /\ ended \in {"errors", "closed"} => Exits = {}

\* C6 witness: main has returned after TRIES successes and the Exit.
C6_Witness == mainpc = "end" /\ Exits # {} /\ Fails # {}

\* C7 as claimed: the commands written to TCP are a subsequence of the
\* commands the sampler put into Q.
C7_WireSubseqOfQ == IsSubseq(Wire, Enqueued)

\* C7 as amended: the SubmitData commands given to publish are a
\* subsequence of the commands put into Q, each publish call carries one
\* command, and the only other command is the sender's own Exit, last.
C7_SubmitsSubseqOfQ ==
    /\ IsSubseq(SelectSeq(Published, IsSubmit), Enqueued)
    /\ \A i \in 1..Len(pubs) :
          IsSubmit(pubs[i].cmd) \/ (pubs[i].cmd = Exit /\ i = Len(pubs))

\* C7 witness: Exit was written after SubmitData commands of which one,
\* not the last of Q, failed to be written.
C7_Witness ==
    /\ Exits # {}
    /\ pubs[Len(pubs)].ok
    /\ Fails # {}
    /\ Len(Wire) < sent

\* C8: main never waits in join for a worker that is blocked in its send
\* on the full Q, which main no longer drains.
C8_JoinReturns ==
    (mainpc = "join" /\ pc[1] = "send") => SendReady

(***************************************************************************)
(* Properties of the codec, under SpecCodec.                               *)
(***************************************************************************)
\* The frame reached decode as encode wrote it, and decode was given the
\* collector id the frame was encoded with.
Untouched == cx_pc = "done" /\ cx_tampered = {} /\ cx_expect = cx_id

InvalidVersion == [kind |-> "Err", error |-> "InvalidVersion"]

\* C9: decoding the bytes encode produced for a command succeeds and
\* returns that command together with the timestamp encode read from its
\* clock.
C9_RoundTrip ==
    Untouched =>
        cx_out = [kind |-> "Ok", timestamp |-> cx_clock,
                  command |-> cx_command]

\* C9 witness: a command with a many-digit memory size, no cpus and the
\* later clock value has been encoded and decoded.
C9_Witness ==
    /\ Untouched
    /\ cx_out.kind = "Ok"
    /\ cx_clock = 1700000000
    /\ cx_command.metrics.cpus = 0
    /\ cx_command.collector_id # cx_id

\* C10 as claimed: a frame whose version field is not 1 is answered with
\* the invalid-version error, whatever the other fields and the payload
\* are, a short payload included.
C10_VersionGateAlways ==
    (/\ cx_pc = "done"
     /\ Len(cx_frame) >= 18
     /\ SubSeq(cx_frame, 17, 18) # BE(VERSION_NUMBER, 2))
        => cx_out = InvalidVersion

\* C10 as amended: a frame that is complete and carries the collector id
\* decode is given, and whose version field is not 1, is answered with the
\* invalid-version error, whatever its CRC and the content of its payload.
C10_VersionGateComplete ==
    (/\ cx_pc = "done"
     /\ "cut" \notin cx_tampered
     /\ SubSeq(cx_frame, 1, 16) = BE(cx_expect, 16)
     /\ SubSeq(cx_frame, 17, 18) # BE(VERSION_NUMBER, 2))
        => cx_out = InvalidVersion

\* C10 witness: the version, the payload and the CRC of a frame were all
\* changed, and decode answered with the invalid-version error.
C10_Witness ==
    /\ cx_pc = "done"
    /\ cx_tampered = {"version", "payload", "crc"}
    /\ cx_expect = cx_id
    /\ cx_out = InvalidVersion

\* The frame decode was given is complete, carries the collector id decode
\* was given and has version 1.
Accepted ==
    /\ cx_pc = "done"
    /\ Len(cx_frame) = 34 + Len(ToJson(cx_command))
    /\ SubSeq(cx_frame, 1, 16) = BE(cx_expect, 16)
    /\ SubSeq(cx_frame, 17, 18) = BE(VERSION_NUMBER, 2)

\* The payload and the CRC field of a complete frame.
PayloadOf(bytes) == SubSeq(bytes, 31, Len(bytes) - 4)
CrcOf(bytes) == SubSeq(bytes, Len(bytes) - 3, Len(bytes))

\* C11: a frame that is well-formed but for a CRC field that differs from
\* the CRC-32 of its payload is answered with the bad-CRC error as a value:
\* decode neither returns a command nor panics.
C11_BadCrcIsError ==
    (Accepted /\ CrcOf(cx_frame) # CrcBytes(Crc32(PayloadOf(cx_frame))))
        => cx_out = [kind |-> "Err", error |-> "BadCrc"]

\* C12: a buffer that ends before the header, the announced payload and
\* the four bytes of the CRC are all there is answered with an error, never
\* with a command.
C12_TruncatedIsError ==
    (cx_pc = "done" /\ Len(cx_frame) < 34 + Len(ToJson(cx_command)))
        => cx_out.kind = "Err"

\* C12 witness: a frame of the right collector that lacks only the last
\* byte of its CRC was answered with the read error.
C12_Witness ==
    /\ cx_pc = "done"
    /\ cx_tampered = {"cut"}
    /\ cx_expect = cx_id
    /\ Len(cx_frame) = 33 + Len(ToJson(cx_command))
    /\ cx_out = [kind |-> "Err", error |-> "Io"]

\* C13: a frame with version 1 and a matching CRC whose payload is not the
\* JSON of a command is answered with the bad-payload error as a value:
\* decode does not panic.
C13_BadPayloadIsError ==
    (/\ Accepted
     /\ CrcOf(cx_frame) = CrcBytes(Crc32(PayloadOf(cx_frame)))
     /\ ~FromJson(PayloadOf(cx_frame)).ok)
        => cx_out = [kind |-> "Err", error |-> "BadPayload"]

\* The frame as encode left it.
Encoded == cx_pc = "wire" /\ cx_tampered = {}

C15_MalformedDropped ==
    [][(chunks' = chunks + 1 /\ DecodeOf[last'.kind] # "Ok")
          => (pbuf' = pbuf /\ conn' = conn /\ listener' = listener)]_vars

\* C16: while a connection task is blocked in its send on the full P, the
\* listener is still polled, so that it accepts the next connection.
C16_AcceptsWhileBlocked ==
    (/\ blocked # 0
     /\ Len(pbuf) = PCap
     /\ listener = "select"
     /\ \E c \in Conns : conn[c] = "none")
        => Polling

\* C17: no envelope that was decoded is discarded: none of the sends to P
\* has failed with its result ignored.
C17_DecodedReachP == lost = {}

\* C18: once stop has notified, the listener has left its loop or holds a
\* Notified future that was woken, which takes it out of the loop.
C18_StopEndsListener ==
    (stopped /\ listener \in {"init", "select", "backoff"})
        => (listener = "select" /\ notified)

\* C19: after the worker has dequeued an Exit it keeps draining P, and the
\* receiver is not stopped.
C19_ExitKeepsDraining ==
    (\E i \in 1..Len(dequeued) : dequeued[i].command.tag = "Exit")
        => (watch \in {"recv", "insert"} /\ ~stopped)

HexVal(ch) == IF ch \in 48..57 THEN ch - 48 ELSE ch - 87

RECURSIVE Unhex(_)
Unhex(cs) ==
    IF Len(cs) < 2 THEN <<>>
    ELSE <<16 * HexVal(cs[1]) + HexVal(cs[2])>>
         \o Unhex(SubSeq(cs, 3, Len(cs)))

\* The text is the hyphenated UUID of the 128-bit number id.
IsUuidOf(text, id) ==
    /\ Len(text) = 36
    /\ \A i \in {9, 14, 19, 24} : text[i] = 45
    /\ \A i \in (1..36) \ {9, 14, 19, 24} :
          text[i] \in (48..57) \cup (97..102)
    /\ Unhex(SelectSeq(text, LAMBDA ch : ch # 45)) = BE(id, 16)

\* The signed number s of the table is the unsigned number u.
SameNumber(u, s) ==
    /\ s[1] < 128
    /\ u = [i \in 1..(Len(u) - Len(s)) |-> 0] \o s

\* The row has the collector id, the metrics and the timestamp of the
\* pair.
RowCarries(r, d) ==
    /\ d.command.tag = "SubmitData"
    /\ IsUuidOf(r.collector_id, d.command.collector_id)
    /\ SameNumber(d.timestamp, r.received)
    /\ SameNumber(d.command.metrics.total_memory, r.total_memory)
    /\ SameNumber(d.command.metrics.used_memory, r.used_memory)
    /\ SameNumber(d.command.metrics.cpus, r.cpus)
    /\ r.cpu_usage = d.command.metrics.cpu_usage
    /\ r.avg_cpu_usage = d.command.metrics.avg_cpu_usage

\* C20: the rows of the table are in one-to-one correspondence with some
\* of the SubmitData commands the worker dequeued, each row with the
\* collector id, the metrics and the envelope timestamp of its command.
C20_RowsMatchDequeued ==
    /\ \A i, j \in 1..Len(rows) : rows[i].of = rows[j].of => i = j
    /\ \A i \in 1..Len(rows) :
          \E k \in 1..Len(dequeued) :
             dequeued[k].n = rows[i].of /\ RowCarries(rows[i], dequeued[k])

\* C21: a step of the worker that ends an insert without a new row leaves
\* the worker in its loop, at the next receive, with P and the commands
\* taken from it as they were; and an insert is only ever begun for a pair
\* that was just taken from P, so the failed one is not tried again.
C21_FailedInsertSkipped ==
    [][/\ (watch = "insert" /\ watch' # "insert" /\ rows' = rows)
            => (watch' = "recv" /\ pbuf' = pbuf /\ dequeued' = dequeued)
       /\ (watch # "insert" /\ watch' = "insert")
            => (pbuf # <<>> /\ item' = Head(pbuf) /\ pbuf' = Tail(pbuf))]_vars

\* C21 witness: the insert of the first SubmitData failed and the second
\* command of P was inserted.
C21_Witness ==
    /\ Len(dequeued) = 2
    /\ dequeued[1].command.tag = "SubmitData"
    /\ Len(rows) = 1
    /\ rows[1].of = dequeued[2].n


\* C22: every row's received column, parsed back as the read queries parse
\* it, is the timestamp of the envelope the row was made of, and the
\* points a metrics query returns carry that timestamp: nothing on the
\* write path changes it, whatever u128 the envelope holds.
C22_ReceivedRoundTrip ==
    /\ \A i \in 1..Len(rows) :
          ParseU128(ReceivedColumn(rows[i]))
              = [ok |-> TRUE, value |-> dequeued[rows[i].of].timestamp]
    /\ shown.query = "metrics" =>
          /\ shown.kind = "Ok"
          /\ \A i \in 1..Len(shown.points) :
                shown.points[i].received
                    = dequeued[shown.points[i].of].timestamp

\* a is a smaller unsigned number than b (same width).
NumLess(a, b) ==
    \E i \in 1..Len(a) : a[i] < b[i] /\ \A j \in 1..(i - 1) : a[j] = b[j]

\* a is a smaller signed number than b (same width).
SignedLess(a, b) ==
    IF (a[1] >= 128) # (b[1] >= 128) THEN a[1] >= 128 ELSE NumLess(a, b)

\* C23: the list a collectors query returns has exactly one entry for
\* each collector id of the table, every entry's last_seen is the
\* numerically largest received of that collector's rows, and the entries
\* are in ascending numeric order of last_seen.
C23_CollectorList ==
    [][(shown' # shown /\ shown'.query = "collectors" /\ shown'.kind = "Ok")
        => LET es == shown'.entries
               ids == {rows[i].collector_id : i \in 1..Len(rows)}
               receivedOf(id) ==
                   {rows[i].received :
                       i \in {j \in 1..Len(rows) : rows[j].collector_id = id}}
           IN  /\ Len(es) = Cardinality(ids)
               /\ {es[i].collector_id : i \in 1..Len(es)} = ids
               /\ \A i \in 1..Len(es) :
                     \E m \in receivedOf(es[i].collector_id) :
                        /\ SameNumber(es[i].last_seen, m)
                        /\ \A k \in receivedOf(es[i].collector_id) :
                              ~SignedLess(m, k)
               /\ \A i, j \in 1..Len(es) :
                     i < j => ~NumLess(es[j].last_seen, es[i].last_seen)]_vars


\* The thread is inside Signal::wait.
InWait(s) == sig_pc[s] # "idle"

\* C24: a wait that begins when the last call that wrote the flag was a
\* set (no reset and no completed wait since) returns without blocking;
\* and no thread stays in wait forever while that is so.
C24_SetBeforeWait ==
    /\ [][\A s \in Waiters :
            (sig_pc[s] = "idle" /\ sig_last = "set" /\ sig_how'[s] # sig_how[s])
                => (sig_pc'[s] = "idle" /\ sig_how'[s] = "direct")]_vars
    /\ \A s \in Waiters : ~<>[](InWait(s) /\ sig_last = "set")

\* A thread that blocked in wait has returned after a later set, and
\* another wait has returned without blocking.
C24_Witness ==
    \E s, u \in Waiters :
        /\ sig_how[s] = "woken"
        /\ sig_how[u] = "direct"
        /\ sets = 2

\* C25: when two or more threads are blocked in wait and set is called,
\* every one of them eventually returns from wait, or a reset is called.
C25_SetWakesAll ==
    \A s \in Waiters :
        [](( /\ sig_pc[s] = "notified"
             /\ Cardinality({u \in Waiters : sig_pc[u] = "notified"}) >= 2
             /\ resets = 0)
            => <>(sig_pc[s] = "idle" \/ resets > 0))


\* The persistence task is in handle.join() and the receiver thread is
\* held by a send on the full P, which only the persistence task drains.
JoinWaitsForSend == watch = "join" /\ blocked # 0 /\ ~CanSend

\* C26: the receiver process never deadlocks: the persistence task never
\* waits to join the receiver thread while that thread is blocked in a
\* send on a full P that nobody drains.
C26_NoDeadlock == ~JoinWaitsForSend


\* C27: when a connection has read a frame without its last byte and
\* reads the rest of it next, the envelope is decoded and forwarded.
C27_SplitEnvelopeForwarded ==
    [][\A c \in Conns :
          (/\ last = [conn |-> c, kind |-> "short"]
           /\ last' = [conn |-> c, kind |-> "rest"])
              => decoded' = decoded + 1]_vars


\* C28: once stop has been called and every worker that was spawned has
\* left its loop, a new start succeeds.
C28_RestartAfterStop ==
    (/\ stop_requested
     /\ \A w \in Workers : pc[w] \in {"idle", "done"}
     /\ \E w \in Workers : pc[w] = "done")
        => ~StartFails


\* The worker is in its loop.
Looping == {"check", "sleep", "body", "send", "release"}

\* C29: the first deadline is the start time plus T, and in the loop of
\* the program's worker next_tick minus T times the number of tick bodies
\* entered never changes (the n-th deadline is the start time plus
\* n * T): next_tick changes only when a tick body is entered, by T.
C29_DeadlinesOnGrid ==
    [][\A w \in Workers :
          /\ (pc[w] = "init" /\ pc'[w] = "check")
                => next_tick'[w] = now + period[w]
          /\ (pc[w] \in Looping /\ pc'[w] \in Looping)
                => /\ next_tick'[w] - ticks' * period'[w]
                        = next_tick[w] - ticks * period[w]
                   /\ next_tick'[w] # next_tick[w]
                        => /\ pc'[w] = "body"
                           /\ next_tick'[w] = next_tick[w] + period[w]]_vars

\* The third tick body, entered after its deadline.
C29_Witness ==
    \E w \in Workers :
        /\ pc[w] = "body"
        /\ ticks = 3
        /\ now > next_tick[w] - period[w]


\* C30: running is true while the worker executes a tick body, the
\* second and later ones included, and false while it sleeps between two
\* ticks.
C30_RunningInBody ==
    \A w \in Workers :
        /\ pc[w] \in {"body", "send"} => running
        /\ (pc[w] = "sleep" /\ ticks >= 1) => ~running


\* After stop, a worker enters a tick body only from the sleep its loop
\* check had already led to, and begins no further sleep.
OneMoreTickAtMost ==
    [][\A w \in Workers :
          stop_requested
            => /\ (pc[w] # "body" /\ pc'[w] = "body") => pc[w] = "sleep"
               /\ pc[w] # "sleep" => pc'[w] # "sleep"
               /\ (pc[w] = "check" /\ pc'[w] # "check") => pc'[w] = "done"]_vars

\* C31: after stop the worker finishes the tick in progress, starts at
\* most one further tick body (the one whose loop check had passed) and
\* then leaves its loop: nothing keeps it inside the tick it is in.
C31_StopBetweenTicks ==
    /\ OneMoreTickAtMost
    /\ [](\A w \in Workers : (stop_requested /\ pc[w] = "send") => SendReady)


\* C32: a hand-off that fails because the receiving end of Q is dropped
\* takes the worker out of its loop: its thread ends.
C32_ClosedQueueEndsWorker ==
    [][\A w \in Workers :
          (pc[w] = "send" /\ ~rx_alive /\ pc'[w] # "send")
              => pc'[w] \notin Looping]_vars


\* C33: a read that returns an error a retry does not get over ends the
\* connection's task: the task does not go back to read the socket.
C33_FatalReadErrorEndsTask ==
    [][\A c \in Conns :
          (last' # last /\ last' = [conn |-> c, kind |-> "reset"])
              => conn'[c] # "read"]_vars


\* C34: a thread in wait_timeout(d) is not blocked once more than d has
\* elapsed, for every d, zero included; a call that returns false leaves
\* the flag as it found it, unsignaled, and one that returns true has
\* reset it.
C34_TimedWaitEnds ==
    /\ [](\A s \in Waiters :
            (InTimed(s) /\ sig_pc[s] \in {"blocked", "timed"})
                => sig_el[s] <= sig_d[s])
    /\ [][\A s \in Waiters :
            (sig_d'[s] >= 0 /\ sig_pc'[s] = "idle" /\ sig_how'[s] # sig_how[s])
                => /\ ~signaled'
                   /\ sig_how'[s] = "timeout" => ~signaled]_vars


\* C35: after a wait has returned and until a set runs the flag is
\* unsignaled and a wait that begins blocks; after sets, however many,
\* with no wait since, a wait that begins returns without blocking, and
\* in returning it resets the flag.
C35_WaitResets ==
    /\ [](sig_last = "waited" => ~signaled)
    /\ [][\A s \in Waiters :
            (sig_pc[s] = "idle" /\ sig_how'[s] # sig_how[s])
                => /\ sig_last = "waited" => sig_pc'[s] = "blocked"
                   /\ sig_last = "set"
                        => (sig_pc'[s] = "idle" /\ sig_last' = "waited"
                            /\ ~signaled')]_vars

\* After two sets with no reset, one wait has returned without blocking
\* and the wait after it is blocked.
C35_Witness ==
    /\ sets = 2
    /\ resets = 0
    /\ sig_last = "waited"
    /\ \E s, u \in Waiters :
          /\ sig_how[s] = "direct"
          /\ sig_pc[s] = "idle"
          /\ sig_pc[u] = "blocked"


\* C36: running becomes true only in a start that returns Ok and spawns
\* the thread, and false only when the listener leaves its loop; a start
\* on a running receiver returns the error and changes nothing; while the
\* receiver is not running no notification is sent.
C36_ReceiverFlag ==
    [][/\ (~rc_running /\ rc_running')
            => (start_result' = "Ok" /\ listener = "none" /\ listener' = "init")
       /\ (rc_running /\ ~rc_running')
            => (listener = "select" /\ notified /\ listener' = "exited")
       /\ (rc_running /\ start_result' # start_result)
            => (start_result' = "AlreadyRunning" /\ UNCHANGED receiverVars)
       /\ ~rc_running => (stopped' = stopped /\ notified' = notified)]_vars

\* A start on the running receiver has failed, and the receiver has then
\* been stopped and its thread has ended.
C36_Witness ==
    /\ start_result = "AlreadyRunning"
    /\ ~rc_running
    /\ listener = "done"


\* C37: the drop of any Collector value sets the stop flag that all of
\* them share and touches nothing else, a drop that finds the flag set
\* changes nothing, and the set flag ends the worker whichever value
\* started it: no worker stays in its send with the flag set.
C37_ClonesShareStop ==
    /\ [][(handles' # handles /\ handles' \subseteq handles)
            => /\ stop_requested'
               /\ UNCHANGED <<running, workerVars, chanVars, start_result>>]_vars
    /\ [](\A w \in Workers :
            (stop_requested /\ pc[w] = "send") => SendReady)


\* C38: no command is given to publish twice, the commands published are
\* the samples in the order they were taken, a failed one being followed
\* by the next, and the SubmitData delivered are no more than the samples
\* handed to Q.
C38_PublishedOnce ==
    /\ \A i, j \in 1..Len(pubs) : pubs[i].cmd = pubs[j].cmd => i = j
    /\ \A i \in 1..Len(pubs) :
          IsSubmit(pubs[i].cmd) => pubs[i].cmd = SubmitData(i)
    /\ \A i \in 1..Len(pubs) : IsSubmit(pubs[i].cmd) => i <= sent
    /\ Cardinality(OkSubmits) <= sent
    /\ mainpc = "publish" => command = SubmitData(Len(pubs) + 1)

\* C38 witness: a publish failed, and the publish after it delivered the
\* next sample.
C38_Witness ==
    \E i \in 1..Len(pubs) :
        /\ i > 1
        /\ ~pubs[i - 1].ok
        /\ pubs[i].ok
        /\ pubs[i].cmd = SubmitData(i)


\* The user of the last add or update call.
LastUser == st_last.user

\* A stored user has the username.
UsernameStored(username) ==
    \E id \in DOMAIN users : users[id].username = username

\* C39: after a successful add(u), get(u.id) and get_by_username(u.username)
\* return u; after a successful update that renames a stored user the
\* lookup by the new username returns that user; after a successful
\* remove(id) the lookups by id and by the removed user's username return
\* nothing; an add whose id or username is already stored fails and
\* leaves both maps unchanged.
C39_StoreLookups ==
    /\ []((st_last.op = "add" /\ st_last.ok)
            => /\ get(LastUser.id) = LastUser
               /\ get_by_username(LastUser.username) = LastUser)
    /\ []((st_last.op = "update" /\ st_last.ok /\ st_last.renamed)
            => /\ get(LastUser.id) # None
               /\ get_by_username(LastUser.username) = get(LastUser.id))
    /\ []((st_last.op = "remove" /\ st_last.ok)
            => /\ get(st_last.id) = None
               /\ get_by_username(st_last.username) = None)
    /\ [][(/\ st_last'.op = "add"
           /\ storeVars' # storeVars
           /\ \/ st_last'.user.id \in DOMAIN users
              \/ UsernameStored(st_last'.user.username))
            => (~st_last'.ok /\ UNCHANGED <<users, username_map>>)]_vars

\* C40: the username index and the user map agree after every call: each
\* stored user is found by get_by_username under its username, each index
\* entry points to a stored user with that username, and no two stored
\* users have the same username.
C40_IndexAgrees ==
    /\ \A id \in DOMAIN users :
          get_by_username(users[id].username) = users[id]
    /\ \A x \in username_map :
          x[2] \in DOMAIN users /\ users[x[2]].username = x[1]
    /\ \A i, j \in DOMAIN users :
          users[i].username = users[j].username => i = j

====
